---- MODULE Spec2Model ----
(***************************************************************************)
(* Model of the mcp-kio request pipeline: the sliding-window rate limiter, *)
(* the in-memory TTL cache, the audit trail, the provider adapters' error  *)
(* behaviour and the kio_get_judgment / kio_search orchestration.          *)
(*                                                                         *)
(* Time is the value of Date.now(), counted in model ticks.  The window of *)
(* the limiters, the TTL classes and the capacities are scaled down; the   *)
(* comparisons made on them are the source's.                              *)
(***************************************************************************)
EXTENDS Integers, Sequences, FiniteSets, TLC

\* ------------------------------------------------------------------------
\* Bounds of the model
\* ------------------------------------------------------------------------
MaxTime == 3            \* the clock stops advancing here
WindowMs == 2           \* RateLimits.*.windowMs, in ticks
SearchMaxRequests == 2  \* RateLimits.SEARCH.maxRequests, scaled
JudgmentMaxRequests == 1 \* RateLimits.JUDGMENT.maxRequests, scaled
HealthMaxRequests == 1  \* RateLimits.HEALTH.maxRequests, scaled
MaxChecks == 4          \* checkLimit calls explored per limiter run
CacheMaxEntries == 2    \* CacheConfig.maxEntries of the modelled cache
DefaultTtlMs == 2       \* CacheConfig.defaultTtlMs of the modelled cache
MaxTtl == 1             \* largest ttl passed to set
MaxGets == 2            \* get calls explored per cache run
MaxSets == 4            \* set calls explored per cache run
MaxRequests == 2        \* tool invocations explored per run
MaxInFlight == 1        \* tool invocations suspended at the same time
AuditMaxEntries == 3    \* AuditLogger.maxEntries, scaled
MaxLogs == 4            \* log calls explored per audit logger run
\* the largest count asked of getRecentEntries
MaxCount == 4
JudgmentTtl == 2        \* CacheTTL.JUDGMENT, in ticks
SearchTtl == 1          \* CacheTTL.SEARCH, in ticks
HealthTtl == 1          \* CacheTTL.HEALTH, in ticks
MaxTextLen == 5         \* longest text paginated
MaxChars == 3           \* largest window size (max_chars) explored
MaxBelow == 2           \* how far below 0 the offsets explored reach
MaxTotalResults == 9    \* largest totalResults of a SAOS response
MaxPageSize == 3        \* largest pageSize of a SAOS response
MaxPageNumber == 4      \* largest pageNumber of a SAOS response
MaxFragments == 4       \* pieces of a text given to the date extraction
MaxEntityFragments == 4 \* pieces of a text given to the entity decoding
MaxConcurrent == 2      \* invocations suspended at the same time (SpecConcurrent)

Clients == {"default", "c1"}
Limiters == {"search", "judgment", "health"}
RLimiters == {"search", "judgment"}   \* the instances SpecRateLimiter drives

VARIABLES
    now,          \* Date.now()
    rlEntries,    \* RateLimiter.entries of each limiter: clientId -> timestamps
    rlAccepted,   \* history: timestamps of the accepted checkLimit calls
                  \* of each limiter and client since the last reset/clear
    rlLast,       \* the last limiter call and what it returned
    rlCalls,      \* number of checkLimit calls made (bounds the run)
    cache,        \* MemoryCache.cache: the Map's entries in insertion order
    hits,         \* MemoryCache.hits
    misses,       \* MemoryCache.misses
    cacheWritten, \* history: per key, the last set not since deleted,
                  \* cleared, overwritten or evicted
    cacheLast,    \* the last cache call and what it returned
    cacheSets,    \* number of set calls made (bounds the run)
    req,          \* the tool invocations: position, input, result
    providers,    \* ToolContext.providers: the registered provider names
    auditEntries, \* AuditLogger.entries
    auditCount,   \* history: number of entries ever logged
    auditHistory, \* history: every entry logged since construction or clear
    includeSensitive, \* AuditLoggerConfig.includeSensitive
    keyArgs,      \* the two requests whose cache keys are compared
    keyOf,        \* generateCacheKey of each of the two requests
    call,         \* the call of a pure function under examination
    result        \* what the call, and its follow-up calls, returned

rlVars == <<rlEntries, rlAccepted, rlLast, rlCalls>>
cacheVars == <<cache, hits, misses, cacheWritten, cacheLast, cacheSets>>
auditVars == <<auditEntries, auditCount, auditHistory>>
keyVars == <<keyArgs, keyOf>>
pureVars == <<keyVars, call, result>>
toolVars == <<req, providers, auditVars, includeSensitive, pureVars>>
vars == <<now, rlVars, cacheVars, toolVars>>

\* ------------------------------------------------------------------------
\* Rate limiter (security/rate-limiter.ts)
\* ------------------------------------------------------------------------
RateLimits(l) ==
    CASE l = "search"   -> [maxRequests |-> SearchMaxRequests, windowMs |-> WindowMs]
      [] l = "judgment" -> [maxRequests |-> JudgmentMaxRequests, windowMs |-> WindowMs]
      [] l = "health"   -> [maxRequests |-> HealthMaxRequests, windowMs |-> WindowMs]

\* entry.timestamps.filter((ts) => ts > windowStart)
\* (FilterWindowInclusive keeps a timestamp exactly one window old)
FilterWindowInclusive(ts, windowStart) == SelectSeq(ts, LAMBDA x : x >= windowStart)
FilterWindow(ts, windowStart) == SelectSeq(ts, LAMBDA x : x > windowStart)

MapSet(m, k, v) == [x \in (DOMAIN m) \cup {k} |-> IF x = k THEN v ELSE m[x]]
MapDelete(m, k) == [x \in (DOMAIN m) \ {k} |-> m[x]]
EmptyMap == [x \in {} |-> <<>>]

MinOfSeq(s) == CHOOSE m \in {s[i] : i \in DOMAIN s} :
                   \A i \in DOMAIN s : m <= s[i]

Max0(a) == IF a > 0 THEN a ELSE 0

\* Math.ceil(a / b) for b > 0
CeilDiv(a, b) == IF a % b = 0 THEN a \div b ELSE (a \div b) + 1

\* checkLimit(clientId) on the entries map of one limiter, at time t:
\* the new map, whether the call returned true, and the retryAfterMs of the
\* RateLimitError otherwise.
\* The limit test, with a strict comparison (admits one request too many).
LimitExceededStrict(count, maxRequests) == count > maxRequests
LimitExceeded(count, maxRequests) == count >= maxRequests

\* (CheckLimitOnUnrecorded accepts a request without recording it)
CheckLimitOnUnrecorded(entries, cfg, clientId, t) ==
    LET windowStart == t - cfg.windowMs
        old == IF clientId \in DOMAIN entries THEN entries[clientId] ELSE <<>>
        kept == FilterWindow(old, windowStart)
    IN IF LimitExceeded(Len(kept), cfg.maxRequests)
       THEN [entries |-> MapSet(entries, clientId, kept),
             accepted |-> FALSE,
             retryAfterMs |-> kept[1] + cfg.windowMs - t]
       ELSE [entries |-> MapSet(entries, clientId, kept),
             accepted |-> TRUE,
             retryAfterMs |-> 0]

\* (CheckLimitOnRejectedRecorded records a rejected request too)
CheckLimitOnRejectedRecorded(entries, cfg, clientId, t) ==
    LET windowStart == t - cfg.windowMs
        old == IF clientId \in DOMAIN entries THEN entries[clientId] ELSE <<>>
        kept == FilterWindow(old, windowStart)
    IN IF LimitExceeded(Len(kept), cfg.maxRequests)
       THEN [entries |-> MapSet(entries, clientId, Append(kept, t)),
             accepted |-> FALSE,
             retryAfterMs |-> kept[1] + cfg.windowMs - t]
       ELSE [entries |-> MapSet(entries, clientId, Append(kept, t)),
             accepted |-> TRUE,
             retryAfterMs |-> 0]

\* (CheckLimitOnRefunding forgets the earlier requests when it accepts one)
CheckLimitOnRefunding(entries, cfg, clientId, t) ==
    LET windowStart == t - cfg.windowMs
        old == IF clientId \in DOMAIN entries THEN entries[clientId] ELSE <<>>
        kept == FilterWindow(old, windowStart)
    IN IF LimitExceeded(Len(kept), cfg.maxRequests)
       THEN [entries |-> MapSet(entries, clientId, kept),
             accepted |-> FALSE,
             retryAfterMs |-> kept[1] + cfg.windowMs - t]
       ELSE [entries |-> MapSet(entries, clientId, <<t>>),
             accepted |-> TRUE,
             retryAfterMs |-> 0]

\* (CheckLimitOnShared keeps one list of timestamps for all callers)
CheckLimitOnShared(entries, cfg, clientId, t) ==
    LET windowStart == t - cfg.windowMs
        old == IF "default" \in DOMAIN entries THEN entries["default"] ELSE <<>>
        kept == FilterWindow(old, windowStart)
    IN IF LimitExceeded(Len(kept), cfg.maxRequests)
       THEN [entries |-> MapSet(entries, "default", kept),
             accepted |-> FALSE,
             retryAfterMs |-> kept[1] + cfg.windowMs - t]
       ELSE [entries |-> MapSet(entries, "default", Append(kept, t)),
             accepted |-> TRUE,
             retryAfterMs |-> 0]

\* (CheckLimitOnTwice records an accepted request twice)
CheckLimitOnTwice(entries, cfg, clientId, t) ==
    LET windowStart == t - cfg.windowMs
        old == IF clientId \in DOMAIN entries THEN entries[clientId] ELSE <<>>
        kept == FilterWindow(old, windowStart)
    IN IF LimitExceeded(Len(kept), cfg.maxRequests)
       THEN [entries |-> MapSet(entries, clientId, kept),
             accepted |-> FALSE,
             retryAfterMs |-> kept[1] + cfg.windowMs - t]
       ELSE [entries |-> MapSet(entries, clientId, Append(Append(kept, t), t)),
             accepted |-> TRUE,
             retryAfterMs |-> 0]
CheckLimitOn(entries, cfg, clientId, t) ==
    LET windowStart == t - cfg.windowMs
        old == IF clientId \in DOMAIN entries THEN entries[clientId] ELSE <<>>
        kept == FilterWindow(old, windowStart)
    IN IF LimitExceeded(Len(kept), cfg.maxRequests)
       THEN [entries |-> MapSet(entries, clientId, kept),
             accepted |-> FALSE,
             retryAfterMs |-> kept[1] + cfg.windowMs - t]
       ELSE [entries |-> MapSet(entries, clientId, Append(kept, t)),
             accepted |-> TRUE,
             retryAfterMs |-> 0]

\* (GetRemainingRequestsOnInclusive counts a timestamp exactly one window old)
GetRemainingRequestsOnInclusive(entries, cfg, clientId, t) ==
    IF clientId \notin DOMAIN entries
    THEN cfg.maxRequests
    ELSE Max0(cfg.maxRequests
              - Len(FilterWindowInclusive(entries[clientId], t - cfg.windowMs)))
GetRemainingRequestsOn(entries, cfg, clientId, t) ==
    IF clientId \notin DOMAIN entries
    THEN cfg.maxRequests
    ELSE Max0(cfg.maxRequests
              - Len(FilterWindow(entries[clientId], t - cfg.windowMs)))

\* getResetTime returns seconds: Math.ceil(ms / 1000); a tick is one second
\* here, so the division is by 1.
GetResetTimeOn(entries, cfg, clientId, t) ==
    IF clientId \notin DOMAIN entries \/ Len(entries[clientId]) = 0
    THEN 0
    ELSE LET valid == FilterWindow(entries[clientId], t - cfg.windowMs)
         IN IF Len(valid) = 0
            THEN 0
            ELSE CeilDiv(MinOfSeq(valid) + cfg.windowMs - t, 1)

CleanupOn(entries, cfg, t) ==
    LET pruned == [c \in DOMAIN entries |->
                      FilterWindow(entries[c], t - cfg.windowMs)]
    IN [c \in {x \in DOMAIN pruned : Len(pruned[x]) > 0} |-> pruned[c]]

NoCall == [op |-> "none", limiter |-> "none", clientId |-> "none",
           accepted |-> FALSE, value |-> 0]

RLInit ==
    /\ rlEntries = [l \in Limiters |-> EmptyMap]
    /\ rlAccepted = [l \in Limiters |-> [c \in Clients |-> <<>>]]
    /\ rlLast = NoCall
    /\ rlCalls = 0

CheckLimit(l, c) ==
    /\ rlCalls < MaxChecks
    /\ LET r == CheckLimitOn(rlEntries[l], RateLimits(l), c, now)
       IN /\ rlEntries' = [rlEntries EXCEPT ![l] = r.entries]
          /\ rlAccepted' = IF r.accepted
                           THEN [rlAccepted EXCEPT ![l][c] = Append(@, now)]
                           ELSE rlAccepted
          /\ rlLast' = [op |-> "checkLimit", limiter |-> l, clientId |-> c,
                        accepted |-> r.accepted,
                        value |-> r.retryAfterMs]
    /\ rlCalls' = rlCalls + 1
    /\ UNCHANGED now

GetRemainingRequests(l, c) ==
    /\ rlLast' = [op |-> "getRemainingRequests", limiter |-> l, clientId |-> c,
                  accepted |-> FALSE,
                  value |-> GetRemainingRequestsOn(rlEntries[l], RateLimits(l), c, now)]
    /\ UNCHANGED <<now, rlEntries, rlAccepted, rlCalls>>

GetResetTime(l, c) ==
    /\ rlLast' = [op |-> "getResetTime", limiter |-> l, clientId |-> c,
                  accepted |-> FALSE,
                  value |-> GetResetTimeOn(rlEntries[l], RateLimits(l), c, now)]
    /\ UNCHANGED <<now, rlEntries, rlAccepted, rlCalls>>

Reset(l, c) ==
    /\ rlEntries' = [rlEntries EXCEPT ![l] = MapDelete(@, c)]
    /\ rlAccepted' = [rlAccepted EXCEPT ![l][c] = <<>>]
    /\ rlLast' = [op |-> "reset", limiter |-> l, clientId |-> c,
                  accepted |-> FALSE, value |-> 0]
    /\ UNCHANGED <<now, rlCalls>>

Clear(l) ==
    /\ rlEntries' = [rlEntries EXCEPT ![l] = EmptyMap]
    /\ rlAccepted' = [rlAccepted EXCEPT ![l] = [c \in Clients |-> <<>>]]
    /\ rlLast' = [op |-> "clear", limiter |-> l, clientId |-> "none",
                  accepted |-> FALSE, value |-> 0]
    /\ UNCHANGED <<now, rlCalls>>

Cleanup(l) ==
    /\ rlEntries' = [rlEntries EXCEPT ![l] = CleanupOn(@, RateLimits(l), now)]
    /\ rlLast' = [op |-> "cleanup", limiter |-> l, clientId |-> "none",
                  accepted |-> FALSE, value |-> 0]
    /\ UNCHANGED <<now, rlAccepted, rlCalls>>

\* ------------------------------------------------------------------------
\* In-memory cache (cache/memory-cache.ts)
\* ------------------------------------------------------------------------
CacheKeys == {"k1", "k2", "k3"}
\* every set stores a fresh value (the ordinal of the call), so that a read
\* tells which write it returns
FreshValue == cacheSets + 1
TtlArgs == {[given |-> FALSE, ms |-> 0]}
           \cup {[given |-> TRUE, ms |-> n] : n \in 1..MaxTtl}

\* keyPrefix is '' in every cache the server creates: buildKey returns key
KeyPrefix == ""
BuildKey(key) == IF KeyPrefix # "" THEN <<KeyPrefix, key>> ELSE key

\* Date.now() > entry.expiresAt
IsExpired(entry, t) == t > entry.expiresAt

HasKey(c, k) == \E i \in DOMAIN c : c[i].key = k
IndexOfKey(c, k) == CHOOSE i \in DOMAIN c : c[i].key = k
RemoveKey(c, k) == SelectSeq(c, LAMBDA e : e.key # k)
KeysOf(c) == {c[i].key : i \in DOMAIN c}

\* Map.prototype.set: a new key goes last, an existing key keeps its place
\* (MapPutKeepFirst leaves the entry of an existing key as it is)
MapPutKeepFirst(c, e) ==
    IF HasKey(c, e.key) THEN c ELSE Append(c, e)
MapPut(c, e) ==
    IF HasKey(c, e.key)
    THEN [c EXCEPT ![IndexOfKey(c, e.key)] = e]
    ELSE Append(c, e)

\* evictIfNeeded(): delete the first (size - maxEntries) keys of the Map
\* (EvictIfNeededLate starts evicting one entry too late)
EvictIfNeededLate(c, maxEntries) ==
    IF Len(c) <= maxEntries + 1
    THEN c
    ELSE SubSeq(c, Len(c) - maxEntries + 1, Len(c))
EvictIfNeeded(c, maxEntries) ==
    IF Len(c) <= maxEntries
    THEN c
    ELSE LET toEvict == Len(c) - maxEntries
         IN SubSeq(c, toEvict + 1, Len(c))

\* set(key, value, ttlMs?) at time t
\* (CacheSetOnIgnoreTtl always applies the default TTL)
CacheSetOnIgnoreTtl(c, key, value, ttlArg, t) ==
    EvictIfNeeded(MapPut(c, [key |-> BuildKey(key), value |-> value,
                             expiresAt |-> t + DefaultTtlMs, createdAt |-> t]),
                  CacheMaxEntries)
CacheSetOn(c, key, value, ttlArg, t) ==
    LET ttl == IF ttlArg.given THEN ttlArg.ms ELSE DefaultTtlMs
        entry == [key |-> BuildKey(key), value |-> value,
                  expiresAt |-> t + ttl, createdAt |-> t]
    IN EvictIfNeeded(MapPut(c, entry), CacheMaxEntries)

\* get(key) at time t: the new Map, whether a value was returned, the
\* value, and the change of the counters
CacheGetOn(c, key, t) ==
    LET fullKey == BuildKey(key)
    IN IF ~HasKey(c, fullKey)
       THEN [cache |-> c, found |-> FALSE, value |-> "undefined"]
       ELSE LET entry == c[IndexOfKey(c, fullKey)]
            IN IF IsExpired(entry, t)
               THEN [cache |-> RemoveKey(c, fullKey), found |-> FALSE,
                     value |-> "undefined"]
               ELSE [cache |-> c, found |-> TRUE, value |-> entry.value]

\* has(key) at time t
CacheHasOn(c, key, t) ==
    LET fullKey == BuildKey(key)
    IN IF ~HasKey(c, fullKey)
       THEN [cache |-> c, found |-> FALSE]
       ELSE IF IsExpired(c[IndexOfKey(c, fullKey)], t)
            THEN [cache |-> RemoveKey(c, fullKey), found |-> FALSE]
            ELSE [cache |-> c, found |-> TRUE]

\* cleanup(): the periodic sweep deletes every expired entry
CacheCleanupOn(c, t) == SelectSeq(c, LAMBDA e : ~(t > e.expiresAt))

\* stats(): hitRate is the fraction hits / total, kept as numerator and
\* denominator, and 0 when total is 0
CacheStats(c, h, m) ==
    LET total == h + m
    IN [hits |-> h, misses |-> m, size |-> Len(c),
        hitRate |-> IF total > 0 THEN [num |-> h, den |-> total]
                    ELSE [num |-> 0, den |-> 1]]

NoCacheCall == [op |-> "none", key |-> "none", found |-> FALSE,
                value |-> "undefined", evicted |-> 0, closed |-> FALSE]

CacheInit ==
    /\ cache = <<>>
    /\ hits = 0
    /\ misses = 0
    /\ cacheWritten = [k \in {} |-> 0]
    /\ cacheLast = NoCacheCall
    /\ cacheSets = 0

\* get(key) with its counters
\* (CacheGetExpiredUncounted does not count the get of an expired entry)
CacheGetExpiredUncounted(k) ==
    /\ hits + misses < MaxGets
    /\ LET r == CacheGetOn(cache, k, now)
       IN /\ cache' = r.cache
          /\ hits' = IF r.found THEN hits + 1 ELSE hits
          /\ misses' = IF r.found \/ HasKey(cache, BuildKey(k)) THEN misses
                        ELSE misses + 1
          /\ cacheLast' = [op |-> "get", key |-> k, found |-> r.found,
                           value |-> r.value, evicted |-> 0,
                           closed |-> cacheLast.closed]
    /\ UNCHANGED <<now, cacheWritten, cacheSets>>
CacheGet(k) ==
    /\ hits + misses < MaxGets
    /\ LET r == CacheGetOn(cache, k, now)
       IN /\ cache' = r.cache
          /\ hits' = IF r.found THEN hits + 1 ELSE hits
          /\ misses' = IF r.found THEN misses ELSE misses + 1
          /\ cacheLast' = [op |-> "get", key |-> k, found |-> r.found,
                           value |-> r.value, evicted |-> 0,
                           closed |-> cacheLast.closed]
    /\ UNCHANGED <<now, cacheWritten, cacheSets>>

CacheSet(k, v, ttlArg) ==
    /\ cacheSets < MaxSets
    /\ cacheSets' = cacheSets + 1
    /\ LET put == MapPut(cache, [key |-> BuildKey(k), value |-> v,
                                 expiresAt |-> 0, createdAt |-> 0])
           c2 == CacheSetOn(cache, k, v, ttlArg, now)
           gone == KeysOf(put) \ KeysOf(c2)
           w == MapSet(cacheWritten, k,
                       [value |-> v, setAt |-> now,
                        ttl |-> IF ttlArg.given THEN ttlArg.ms
                                ELSE DefaultTtlMs])
       IN /\ cache' = c2
          /\ cacheWritten' = [x \in (DOMAIN w) \ gone |-> w[x]]
          /\ cacheLast' = [op |-> "set", key |-> k, found |-> FALSE,
                           value |-> v, evicted |-> Len(put) - Len(c2),
                           closed |-> cacheLast.closed]
    /\ UNCHANGED <<now, hits, misses>>

CacheDelete(k) ==
    /\ cache' = RemoveKey(cache, BuildKey(k))
    /\ cacheWritten' = MapDelete(cacheWritten, k)
    /\ cacheLast' = [op |-> "delete", key |-> "none",
                     found |-> HasKey(cache, BuildKey(k)),
                     value |-> "undefined", evicted |-> 0,
                     closed |-> cacheLast.closed]
    /\ UNCHANGED <<now, hits, misses, cacheSets>>

CacheHas(k) ==
    /\ LET r == CacheHasOn(cache, k, now)
       IN /\ cache' = r.cache
          /\ cacheLast' = [op |-> "has", key |-> k, found |-> r.found,
                           value |-> "undefined", evicted |-> 0,
                           closed |-> cacheLast.closed]
    /\ UNCHANGED <<now, hits, misses, cacheWritten, cacheSets>>

CacheClear ==
    /\ cache' = <<>>
    /\ hits' = 0
    /\ misses' = 0
    /\ cacheWritten' = [k \in {} |-> 0]
    /\ cacheLast' = [op |-> "clear", key |-> "none", found |-> FALSE,
                     value |-> "undefined", evicted |-> 0,
                     closed |-> cacheLast.closed]
    /\ UNCHANGED <<now, cacheSets>>

\* close(): the sweep timer is cancelled and the Map emptied; the counters
\* stay as they are
CacheClose ==
    /\ cache' = <<>>
    /\ cacheWritten' = [k \in {} |-> 0]
    /\ cacheLast' = [op |-> "close", key |-> "none", found |-> FALSE,
                     value |-> "undefined", evicted |-> 0,
                     closed |-> TRUE]
    /\ UNCHANGED <<now, hits, misses, cacheSets>>

\* the sweep runs on the timer of the constructor, until close cancels it
CacheCleanup ==
    /\ ~cacheLast.closed
    /\ cache' = CacheCleanupOn(cache, now)
    /\ cacheLast' = [op |-> "cleanup", key |-> "none", found |-> FALSE,
                     value |-> "undefined", evicted |-> 0,
                     closed |-> cacheLast.closed]
    /\ UNCHANGED <<now, hits, misses, cacheWritten, cacheSets>>

\* ------------------------------------------------------------------------
\* Errors (utils/errors.ts)
\* ------------------------------------------------------------------------
NoError == [cls |-> "none", statusCode |-> 0, isRetryable |-> FALSE]
ProviderError(statusCode, isRetryable) ==
    [cls |-> "ProviderError", statusCode |-> statusCode, isRetryable |-> isRetryable]
NotFoundError == [cls |-> "NotFoundError", statusCode |-> 404, isRetryable |-> FALSE]
TimeoutError == [cls |-> "TimeoutError", statusCode |-> 504, isRetryable |-> TRUE]
ValidationError == [cls |-> "ValidationError", statusCode |-> 400, isRetryable |-> FALSE]
\* a built-in Error (TypeError, ...): it has no statusCode and no isRetryable
PlainError == [cls |-> "Error", statusCode |-> 0, isRetryable |-> FALSE]

\* ------------------------------------------------------------------------
\* Upstream transport (utils/http-client.ts)
\* ------------------------------------------------------------------------
\* What one outbound call meets: an HTTP response (status and, for a 200,
\* the kind of body), a failed fetch (network error, abort by the timeout,
\* a thrown non-Error), or a provider object that rejects with a
\* ValidationError (KioProvider is an interface; the adapters never do).
Statuses == {200, 404, 429, 500}
Bodies == {"kio", "other", "nodata", "unparsable"}
Upstream ==
    {[kind |-> "response", status |-> 200, body |-> b] : b \in Bodies}
    \cup {[kind |-> "response", status |-> st, body |-> "none"] : st \in Statuses \ {200}}
    \cup {[kind |-> k, status |-> 0, body |-> "none"] :
             k \in {"network", "abort", "nonError", "rejectValidation"}}
NoUpstream == [kind |-> "none", status |-> 0, body |-> "none"]

Ok(body) == [ok |-> TRUE, err |-> NoError, body |-> body]
Err(e) == [ok |-> FALSE, err |-> e, body |-> "none"]

\* response.ok
HttpOk(status) == status >= 200 /\ status <= 299
\* response.status >= 500 || response.status === 429
HttpRetryable(status) == status >= 500 \/ status = 429

\* HttpClient.get / getHtml
HttpClientGet(u) ==
    CASE u.kind = "response" ->
            IF ~HttpOk(u.status)
            THEN Err(ProviderError(u.status, HttpRetryable(u.status)))
            ELSE IF u.body = "unparsable"
                 THEN Err(ProviderError(503, TRUE))
                 ELSE Ok(u.body)
      [] u.kind = "abort" -> Err(TimeoutError)
      [] u.kind = "network" -> Err(ProviderError(503, TRUE))
      [] OTHER -> Err(ProviderError(500, FALSE))

\* ------------------------------------------------------------------------
\* Provider adapters (providers/saos/provider.ts, providers/uzp/*.ts)
\* ------------------------------------------------------------------------
Digits == {"0", "1", "2", "3", "4", "5", "6", "7", "8", "9"}

\* the white space and line terminators of ECMAScript, which \s of a regular
\* expression matches and parseInt skips: tab, LF, VT, FF, CR, the blank,
\* NBSP, the space separators U+1680, U+2000..U+200A, U+202F, U+205F and
\* U+3000, LS, PS and the BOM (characters outside 32..126 are written "U+"
\* and the decimal code; tab, LF and CR also by their escapes)
WhiteSpace ==
    {" ", "\t", "\n", "\r", "U+9", "U+10", "U+11", "U+12", "U+13", "U+160",
     "U+5760", "U+8192", "U+8193", "U+8194", "U+8195", "U+8196", "U+8197",
     "U+8198", "U+8199", "U+8200", "U+8201", "U+8202", "U+8232", "U+8233",
     "U+8239", "U+8287", "U+12288", "U+65279"}
IsSpace(c) == c \in WhiteSpace

\* the leading white space that parseInt skips
RECURSIVE SkipSpaces(_)
SkipSpaces(str) ==
    IF str # <<>> /\ IsSpace(str[1]) THEN SkipSpaces(Tail(str)) ELSE str

\* isNaN(parseInt(str, 10)): no digit after the leading white space and sign
ParseIntIsNaN(str) ==
    LET t == SkipSpaces(str)
        u == IF t # <<>> /\ t[1] \in {"+", "-"} THEN Tail(t) ELSE t
    IN u = <<>> \/ u[1] \notin Digits

\* SaosProvider.getJudgment, up to the mapping of the record
SaosGetJudgment(providerId, u) ==
    IF ParseIntIsNaN(providerId)
    THEN Err(NotFoundError)
    ELSE LET r == HttpClientGet(u)
         IN IF ~r.ok
            THEN IF r.err.cls = "ProviderError" /\ r.err.statusCode = 404
                 THEN Err(NotFoundError)
                 ELSE r
            ELSE IF r.body = "nodata"
                 THEN Err(PlainError)
                 ELSE IF r.body # "kio"
                      THEN Err(NotFoundError)
                      ELSE r

\* UzpClient.getContentHtml + UzpProvider.getJudgment
UzpGetJudgment(providerId, u) ==
    LET r == HttpClientGet(u)
    IN IF ~r.ok /\ r.err.cls = "ProviderError" /\ r.err.statusCode = 404
       THEN Err(NotFoundError)
       ELSE r

\* SaosClient.search + SaosProvider.search
SaosSearch(u) ==
    LET r == HttpClientGet(u)
    IN IF r.ok /\ r.body = "nodata" THEN Err(PlainError) ELSE r

\* UzpProvider.search: no upstream call, always an empty result
UzpSearch(u) == Ok("empty")

ProviderCall(tool, provider, providerId, u) ==
    IF u.kind = "rejectValidation"
    THEN Err(ValidationError)
    ELSE CASE tool = "judgment" /\ provider = "saos" -> SaosGetJudgment(providerId, u)
           [] tool = "judgment" /\ provider = "uzp" -> UzpGetJudgment(providerId, u)
           [] tool = "search" /\ provider = "saos" -> SaosSearch(u)
           [] OTHER -> UzpSearch(u)

\* ------------------------------------------------------------------------
\* Audit trail (security/audit-logger.ts)
\* ------------------------------------------------------------------------
\* AuditLogger.log: push, then drop the oldest entry beyond maxEntries
\* (AuditLogNoRotation never drops an entry)
AuditLogNoRotation(entries, entry) == Append(entries, entry)
AuditLog(entries, entry) ==
    LET pushed == Append(entries, entry)
    IN IF Len(pushed) > AuditMaxEntries THEN Tail(pushed) ELSE pushed

\* Array.prototype.slice(start): a negative start counts from the end
\* (not below 0), a start of 0 or more from the beginning (not above length)
ArraySlice(arr, start) ==
    LET len == Len(arr)
        k == IF start < 0 THEN Max0(len + start)
             ELSE IF start < len THEN start ELSE len
    IN SubSeq(arr, k + 1, len)

\* getRecentEntries(count): this.entries.slice(-count)
GetRecentEntriesOn(entries, count) == ArraySlice(entries, 0 - count)

\* an entry: the fields the log methods set; "none" is undefined
AuditEntry(eventType, clientId, provider, success, operation) ==
    [eventType |-> eventType, clientId |-> clientId, provider |-> provider,
     success |-> success, operation |-> operation,
     query |-> "none", cacheKey |-> "none"]

RECURSIVE AuditLogAll(_, _)
AuditLogAll(entries, es) ==
    IF es = <<>> THEN entries
    ELSE AuditLogAll(AuditLog(entries, Head(es)), Tail(es))

\* logSearch: the query is kept only under includeSensitive
LogSearchEntry(sensitive, clientId, provider, query) ==
    [AuditEntry("search", clientId, provider, TRUE, "none")
        EXCEPT !.query = IF sensitive THEN query ELSE "none"]

\* logJudgmentAccess
LogJudgmentAccessEntry(clientId, provider) ==
    AuditEntry("judgment_access", clientId, provider, TRUE, "none")

\* logRateLimitExceeded
LogRateLimitExceededEntry(clientId, operation) ==
    AuditEntry("rate_limit_exceeded", clientId, "none", FALSE, operation)

\* logCacheHit / logCacheMiss: metadata.cacheKey is the key
LogCacheHitEntry(key, provider) ==
    [AuditEntry("cache_hit", "none", provider, TRUE, "none") EXCEPT !.cacheKey = key]
LogCacheMissEntry(key, provider) ==
    [AuditEntry("cache_miss", "none", provider, TRUE, "none") EXCEPT !.cacheKey = key]

\* logError
LogErrorEntry(clientId, provider, operation) ==
    AuditEntry("error", clientId, provider, FALSE, operation)

\* logHealthCheck
LogHealthCheckEntry(provider, healthy) ==
    AuditEntry("health_check", "none", provider, healthy, "none")

\* logDomainBlocked
LogDomainBlockedEntry(clientId) ==
    AuditEntry("domain_blocked", clientId, "none", FALSE, "none")

\* the entries es are logged in order
Audit(es) ==
    /\ auditEntries' = AuditLogAll(auditEntries, es)
    /\ auditCount' = auditCount + Len(es)
    /\ auditHistory' = auditHistory \o es

\* ------------------------------------------------------------------------
\* Tools (tools/kio-get-judgment.ts, tools/kio-search.ts)
\* ------------------------------------------------------------------------
Tools == {"judgment", "search"}
ProviderIds == {<<"7">>, <<"x">>}
Preferences(tool) == IF tool = "judgment" THEN {"saos", "uzp"}
                     ELSE {"auto", "saos", "uzp"}

\* A tool input after the schema's defaults; "none" is an absent optional
\* field.  valid is the outcome of the schema on the raw input.
InvalidInput ==
    [valid |-> FALSE, provider |-> "none", providerId |-> <<>>,
     formatPreference |-> "text", maxChars |-> 40000, offsetChars |-> 0,
     query |-> "none", caseNumber |-> "none", dateFrom |-> "none",
     dateTo |-> "none", judgmentType |-> "none", limit |-> 20, page |-> 1,
     includeSnippets |-> TRUE]
Inputs(tool) ==
    {InvalidInput} \cup
    IF tool = "judgment"
    THEN {[InvalidInput EXCEPT !.valid = TRUE, !.provider = p, !.providerId = i] :
             p \in Preferences(tool), i \in ProviderIds}
    ELSE {[InvalidInput EXCEPT !.valid = TRUE, !.provider = p, !.query = "q"] :
             p \in Preferences(tool)}

\* KioGetJudgmentInputSchema.safeParse(input).success
\* (ValidateInputLenient lets every input through)
ValidateInputLenient(input) == TRUE
ValidateInput(input) == input.valid

\* resolveProvider (search); the judgment tool takes the provider as given
ResolveProvider(tool, preference) ==
    IF tool = "search" /\ preference = "auto" THEN "saos" ELSE preference

\* context.providers.get(provider) !== undefined
ProviderRegistered(provider, registered) == provider \in registered

\* a string given as its characters
RECURSIVE StrOf(_)
StrOf(chars) == IF chars = <<>> THEN "" ELSE Head(chars) \o StrOf(Tail(chars))

\* parts.join(sep)
RECURSIVE Join(_, _)
Join(parts, sep) ==
    IF parts = <<>> THEN ""
    ELSE IF Len(parts) = 1 THEN parts[1]
         ELSE parts[1] \o sep \o Join(Tail(parts), sep)

\* x ?? ''
OrEmpty(x) == IF x = "none" THEN "" ELSE x

\* the parts of the search key
SearchKeyParts(provider, input) ==
    <<"search", provider, OrEmpty(input.query), OrEmpty(input.caseNumber),
      OrEmpty(input.dateFrom), OrEmpty(input.dateTo),
      OrEmpty(input.judgmentType), ToString(input.limit), ToString(input.page)>>

\* the parts of the judgment key
JudgmentKeyParts(provider, input) ==
    <<"judgment", provider, StrOf(input.providerId), input.formatPreference,
      ToString(input.maxChars), ToString(input.offsetChars)>>

\* generateCacheKey: parts.join(':')
GenerateCacheKey(tool, provider, input) ==
    IF tool = "judgment"
    THEN Join(JudgmentKeyParts(provider, input), ":")
    ELSE Join(SearchKeyParts(provider, input), ":")

\* CacheTTL.JUDGMENT / CacheTTL.SEARCH
\* (TtlForNone stores every result with a TTL of 0)
TtlForNone(tool) == 0
\* (TtlForOneClass stores every result with the TTL of the search class)
TtlForOneClass(tool) == SearchTtl
TtlFor(tool) ==
    CASE tool = "judgment" -> JudgmentTtl
      [] tool = "search" -> SearchTtl
      [] tool = "health" -> HealthTtl

LimiterOf(tool) == tool
ErrorOperation(tool) == IF tool = "judgment" THEN "get_judgment" ELSE "search"
AccessEvent(tool) == IF tool = "judgment" THEN "judgment_access" ELSE "search"

\* the audit entry of a served request: logJudgmentAccess / logSearch
AccessEntry(q) ==
    IF q.tool = "judgment"
    THEN LogJudgmentAccessEntry(q.clientId, q.provider)
    ELSE LogSearchEntry(includeSensitive, q.clientId, q.provider, q.input.query)

NoOutput == [tool |-> "none", provider |-> "none", providerId |-> <<>>,
             query |-> "none", cached |-> FALSE]
\* the output object: retrievalMetadata / metadata carry provider and
\* cached: false
BuildOutput(tool, provider, input) ==
    [tool |-> tool, provider |-> provider, providerId |-> input.providerId,
     query |-> input.query, cached |-> FALSE]

NoResponse == [success |-> FALSE, code |-> "none", retryable |-> FALSE,
               retryAfterMs |-> 0, cached |-> FALSE, data |-> NoOutput]
\* createToolResult
CreateToolResult(data, cached) ==
    [success |-> TRUE, code |-> "OK", retryable |-> FALSE, retryAfterMs |-> 0,
     cached |-> cached, data |-> data]
\* createToolError
CreateToolError(code, retryable, retryAfterMs) ==
    [success |-> FALSE, code |-> code, retryable |-> retryable,
     retryAfterMs |-> retryAfterMs, cached |-> FALSE, data |-> NoOutput]
\* the tool function throws: its promise rejects and there is no response
Rejected == [NoResponse EXCEPT !.code = "rejected"]

\* the answer to a RateLimitError
\* (RateLimitResponseNoDelay drops the limiter's retry delay)
RateLimitResponseNoDelay(retryAfterMs) ==
    CreateToolError("RATE_LIMIT_EXCEEDED", TRUE, 0)
RateLimitResponse(retryAfterMs) ==
    CreateToolError("RATE_LIMIT_EXCEEDED", TRUE, retryAfterMs)

\* the answer for a provider that is not in context.providers
\* (ProviderNotFoundResponseRetryable marks it retryable)
ProviderNotFoundResponseRetryable == CreateToolError("PROVIDER_NOT_FOUND", TRUE, 0)
ProviderNotFoundResponse == CreateToolError("PROVIDER_NOT_FOUND", FALSE, 0)

\* the catch block of the provider call
\* (ClassifyErrorAllRetryable reports every provider error as retryable)
ClassifyErrorAllRetryable(e) ==
    IF e.cls = "ProviderError" THEN CreateToolError("PROVIDER_ERROR", TRUE, 0)
    ELSE IF e.cls = "ValidationError"
         THEN CreateToolError("VALIDATION_ERROR", FALSE, 0)
         ELSE CreateToolError("INTERNAL_ERROR", TRUE, 0)
ClassifyError(e) ==
    IF e.cls = "ProviderError"
    THEN CreateToolError("PROVIDER_ERROR", e.isRetryable, 0)
    ELSE IF e.cls = "ValidationError"
         THEN CreateToolError("VALIDATION_ERROR", FALSE, 0)
         ELSE CreateToolError("INTERNAL_ERROR", TRUE, 0)

\* the empty catch blocks around cache.get and cache.set: a cache error
\* lets the request continue
\* (OnCacheErrorAbort lets it escape)
OnCacheErrorAbort == "abort"
OnCacheError == "continue"

\* ------------------------------------------------------------------------
\* Faults of the injected collaborators
\* ------------------------------------------------------------------------
\* The audit handler (AuditLoggerConfig.handler) is called by log() after
\* the entry is stored and is not guarded: a handler fault is the set of
\* the log calls of one step, counted from 1, whose handler call throws.
NoHandlerFault == {}
HandlerFaults == SUBSET {1, 2}
\* the cache backend (the Cache interface) may reject get or set
CacheFaults == BOOLEAN

Reqs == 1..MaxRequests
IdleReq == [pc |-> "idle", tool |-> "none", clientId |-> "none",
            input |-> InvalidInput, provider |-> "none",
            got |-> [found |-> FALSE, value |-> NoOutput],
            upstream |-> NoUpstream, response |-> NoResponse,
            calledProvider |-> FALSE, after |-> {}, age |-> -1,
            output |-> NoOutput,
            getThrew |-> FALSE, setThrew |-> FALSE, auditThrew |-> FALSE,
            checks |-> <<>>, finished |-> <<>>]

ToolInit ==
    /\ req = [r \in Reqs |-> IdleReq]
    /\ providers \in {{"saos", "uzp"}, {"saos"}}
    /\ auditEntries = <<>>
    /\ auditCount = 0
    /\ auditHistory = <<>>
    /\ includeSensitive = FALSE
    /\ keyArgs = <<>>
    /\ keyOf = <<>>
    /\ call = <<>>
    /\ result = <<>>

InFlight == {r \in Reqs : req[r].pc \notin {"idle", "done"}}
Done == {r \in Reqs : req[r].pc = "done"}

\* The synchronous head of executeKioGetJudgment / executeKioSearch: validate,
\* check the limiter, resolve the provider, call cache.get (whose body runs
\* at once for the in-memory cache) and suspend at the await.
\* (StartWithin: with at most limit invocations suspended at the same time)
StartWithin(limit, r, tool, clientId, input, getThrows, h) ==
    /\ req[r].pc = "idle"
    /\ \A x \in 1..(r - 1) : req[x].pc # "idle"
    /\ Cardinality(InFlight) < limit
    /\ LET base == [IdleReq EXCEPT !.tool = tool, !.clientId = clientId,
                                   !.input = input, !.after = Done]
           l == LimiterOf(tool)
           chk == CheckLimitOn(rlEntries[l], RateLimits(l), clientId, now)
           provider == ResolveProvider(tool, input.provider)
           key == GenerateCacheKey(tool, provider, input)
           g == CacheGetOn(cache, key, now)
       IN IF ~ValidateInput(input)
          THEN /\ req' = [req EXCEPT ![r] =
                    [base EXCEPT !.pc = "done",
                                 !.response = CreateToolError("VALIDATION_ERROR", FALSE, 0)]]
               /\ UNCHANGED <<rlEntries, rlAccepted, cache, hits, misses,
                              auditEntries, auditCount, auditHistory>>
          ELSE IF ~chk.accepted
          THEN /\ req' = [req EXCEPT ![r] =
                    [base EXCEPT !.pc = "done",
                                 !.auditThrew = (1 \in h),
                                 !.response = IF 1 \in h THEN Rejected
                                              ELSE RateLimitResponse(chk.retryAfterMs)]]
               /\ rlEntries' = [rlEntries EXCEPT ![l] = chk.entries]
               /\ Audit(<<LogRateLimitExceededEntry(clientId, tool)>>)
               /\ UNCHANGED <<rlAccepted, cache, hits, misses>>
          ELSE IF ~ProviderRegistered(provider, providers)
          THEN /\ req' = [req EXCEPT ![r] =
                    [base EXCEPT !.pc = "done", !.provider = provider,
                                 !.response = ProviderNotFoundResponse]]
               /\ rlEntries' = [rlEntries EXCEPT ![l] = chk.entries]
               /\ rlAccepted' = [rlAccepted EXCEPT ![l][clientId] = Append(@, now)]
               /\ UNCHANGED <<cache, hits, misses, auditEntries, auditCount,
                              auditHistory>>
          ELSE IF getThrows
          THEN /\ req' = [req EXCEPT ![r] =
                    [base EXCEPT !.pc = "awaitCacheGet", !.provider = provider,
                                 !.getThrew = TRUE]]
               /\ rlEntries' = [rlEntries EXCEPT ![l] = chk.entries]
               /\ rlAccepted' = [rlAccepted EXCEPT ![l][clientId] = Append(@, now)]
               /\ UNCHANGED <<cache, hits, misses, auditEntries, auditCount,
                              auditHistory>>
          ELSE /\ req' = [req EXCEPT ![r] =
                    [base EXCEPT !.pc = "awaitCacheGet", !.provider = provider,
                                 !.got = [found |-> g.found,
                                          value |-> IF g.found THEN g.value ELSE NoOutput],
                                 !.age = IF key \in DOMAIN cacheWritten
                                         THEN now - cacheWritten[key].setAt
                                         ELSE -1]]
               /\ rlEntries' = [rlEntries EXCEPT ![l] = chk.entries]
               /\ rlAccepted' = [rlAccepted EXCEPT ![l][clientId] = Append(@, now)]
               /\ cache' = g.cache
               /\ hits' = IF g.found THEN hits + 1 ELSE hits
               /\ misses' = IF g.found THEN misses ELSE misses + 1
               /\ UNCHANGED <<auditEntries, auditCount, auditHistory>>
    /\ UNCHANGED <<now, providers, includeSensitive, pureVars, rlLast, rlCalls,
                   cacheWritten, cacheLast, cacheSets>>
Start(r, tool, clientId, input, getThrows, h) ==
    StartWithin(MaxInFlight, r, tool, clientId, input, getThrows, h)

\* After `await cache.get`: answer from the cache, or log the miss and call
\* the provider (suspending at its await).  A rejected get, and a throw of
\* the audit handler inside the try block, end in the empty catch and
\* continue with the provider call.
AfterCacheGet(r, h) ==
    /\ req[r].pc = "awaitCacheGet"
    /\ LET q == req[r]
           key == GenerateCacheKey(q.tool, q.provider, q.input)
           hit == LogCacheHitEntry(key, q.provider)
           miss == LogCacheMissEntry(key, q.provider)
       IN IF q.getThrew
          THEN /\ IF OnCacheError = "continue"
                  THEN req' = [req EXCEPT ![r].pc = "awaitProvider",
                                          ![r].calledProvider = TRUE]
                  ELSE req' = [req EXCEPT ![r].pc = "done",
                                          ![r].response = Rejected]
               /\ UNCHANGED <<auditEntries, auditCount, auditHistory>>
          ELSE IF q.got.found /\ h = {}
          THEN /\ req' = [req EXCEPT ![r].pc = "done",
                                     ![r].response = CreateToolResult(q.got.value, TRUE)]
               /\ Audit(<<hit, AccessEntry(q)>>)
          ELSE IF q.got.found
          THEN /\ req' = [req EXCEPT ![r].pc = "awaitProvider",
                                     ![r].calledProvider = TRUE,
                                     ![r].auditThrew = TRUE]
               /\ Audit(IF 1 \in h THEN <<hit>> ELSE <<hit, AccessEntry(q)>>)
          ELSE /\ req' = [req EXCEPT ![r].pc = "awaitProvider",
                                     ![r].calledProvider = TRUE,
                                     ![r].auditThrew = (1 \in h)]
               /\ Audit(<<miss>>)
    /\ UNCHANGED <<now, providers, includeSensitive, pureVars, rlVars, cacheVars>>

\* The provider's promise settles.  On success the output is built and
\* cache.set is called (its body runs at once); on failure the error is
\* logged and classified.
AfterProviderStoring(output, r, u, setThrows, h) ==
    /\ req[r].pc = "awaitProvider"
    /\ req[r].upstream.kind # "stalled"
    /\ LET q == req[r]
           key == GenerateCacheKey(q.tool, q.provider, q.input)
           res == ProviderCall(q.tool, q.provider, q.input.providerId, u)
           ttl == TtlFor(q.tool)
           put == MapPut(cache, [key |-> BuildKey(key), value |-> output,
                                 expiresAt |-> 0, createdAt |-> 0])
           c2 == CacheSetOn(cache, key, output, [given |-> TRUE, ms |-> ttl], now)
           gone == KeysOf(put) \ KeysOf(c2)
           w == MapSet(cacheWritten, key,
                       [value |-> output, setAt |-> now, ttl |-> ttl])
       IN IF res.ok /\ setThrows
          THEN /\ req' = [req EXCEPT ![r].pc = "awaitCacheSet",
                                     ![r].upstream = u,
                                     ![r].setThrew = TRUE]
               /\ UNCHANGED <<cache, cacheWritten, auditEntries, auditCount,
                              auditHistory>>
          ELSE IF res.ok
          THEN /\ req' = [req EXCEPT ![r].pc = "awaitCacheSet",
                                     ![r].upstream = u]
               /\ cache' = c2
               /\ cacheWritten' = [x \in (DOMAIN w) \ gone |-> w[x]]
               /\ UNCHANGED <<auditEntries, auditCount, auditHistory>>
          ELSE /\ req' = [req EXCEPT ![r].pc = "done",
                                     ![r].upstream = u,
                                     ![r].auditThrew = @ \/ (1 \in h),
                                     ![r].response = IF 1 \in h THEN Rejected
                                                     ELSE ClassifyError(res.err)]
               /\ Audit(<<LogErrorEntry(q.clientId, q.provider,
                                        ErrorOperation(q.tool))>>)
               /\ UNCHANGED <<cache, cacheWritten>>
    /\ UNCHANGED <<now, providers, includeSensitive, pureVars, rlVars, hits, misses,
                   cacheLast, cacheSets>>
AfterProvider(r, u, setThrows, h) ==
    AfterProviderStoring(BuildOutput(req[r].tool, req[r].provider, req[r].input),
                         r, u, setThrows, h)

\* The upstream answers with the headers of a 200 and a body that never
\* ends: HttpClient.get cancels its timer when fetch resolves and then awaits
\* the body, so nothing aborts the call any more and the provider call never
\* settles; the handler stays suspended.  A call that makes no request
\* (UzpProvider.search, SaosProvider.getJudgment on an id that is no number)
\* cannot stall.
Stalled(r) == req[r].pc = "awaitProvider" /\ req[r].upstream.kind = "stalled"
ProviderStalls(r) ==
    /\ req[r].pc = "awaitProvider"
    /\ req[r].upstream = NoUpstream
    /\ ~(req[r].tool = "search" /\ req[r].provider = "uzp")
    /\ ~(req[r].tool = "judgment" /\ req[r].provider = "saos"
             /\ ParseIntIsNaN(req[r].input.providerId))
    /\ req' = [req EXCEPT ![r].upstream =
                   [kind |-> "stalled", status |-> 200, body |-> "none"]]
    /\ UNCHANGED <<now, providers, includeSensitive, pureVars, rlVars, cacheVars,
                   auditVars>>

\* After `await cache.set`: log the access and return the fresh result.  A
\* rejected set ends in the empty catch.  The access is logged inside the
\* try block of the provider call: a throw of the handler there is caught,
\* logged with logError and classified as any other error.
AfterCacheSetReturning(output, r, h) ==
    /\ req[r].pc = "awaitCacheSet"
    /\ LET q == req[r]
           fresh == CreateToolResult(output, FALSE)
           err == LogErrorEntry(q.clientId, q.provider, ErrorOperation(q.tool))
       IN IF q.setThrew /\ OnCacheError # "continue"
          THEN /\ req' = [req EXCEPT ![r].pc = "done", ![r].response = Rejected]
               /\ UNCHANGED <<auditEntries, auditCount, auditHistory>>
          ELSE IF 1 \notin h
          THEN /\ req' = [req EXCEPT ![r].pc = "done", ![r].response = fresh]
               /\ Audit(<<AccessEntry(q)>>)
          ELSE /\ req' = [req EXCEPT ![r].pc = "done",
                                     ![r].auditThrew = TRUE,
                                     ![r].response = IF 2 \in h THEN Rejected
                                                     ELSE ClassifyError(PlainError)]
               /\ Audit(<<AccessEntry(q), err>>)
    /\ UNCHANGED <<now, providers, includeSensitive, pureVars, rlVars, cacheVars>>
AfterCacheSet(r, h) ==
    AfterCacheSetReturning(BuildOutput(req[r].tool, req[r].provider, req[r].input),
                           r, h)

\* ------------------------------------------------------------------------
\* Health tool (tools/kio-health.ts)
\* ------------------------------------------------------------------------
\* the validated inputs of kio_health: provider is optional
HealthInputs ==
    {InvalidInput} \cup
    {[InvalidInput EXCEPT !.valid = TRUE, !.provider = p] :
         p \in {"none", "saos", "uzp"}}

\* `health:${validatedInput.provider ?? 'all'}`
HealthTarget(input) == IF input.provider = "none" THEN "all" ELSE input.provider
HealthCacheKey(input) == "health:" \o HealthTarget(input)

\* The synchronous head of executeKioHealth: validate, check the health
\* limiter, call cache.get and suspend.
HealthStart(r, clientId, input) ==
    /\ req[r].pc = "idle"
    /\ \A x \in 1..(r - 1) : req[x].pc # "idle"
    /\ Cardinality(InFlight) < MaxInFlight
    /\ LET base == [IdleReq EXCEPT !.tool = "health", !.clientId = clientId,
                                   !.input = input, !.after = Done]
           chk == CheckLimitOn(rlEntries["health"], RateLimits("health"),
                               clientId, now)
           key == HealthCacheKey(input)
           g == CacheGetOn(cache, key, now)
       IN IF ~ValidateInput(input)
          THEN /\ req' = [req EXCEPT ![r] =
                    [base EXCEPT !.pc = "done",
                                 !.response = CreateToolError("VALIDATION_ERROR", FALSE, 0)]]
               /\ UNCHANGED <<rlEntries, rlAccepted, cache, hits, misses, auditVars>>
          ELSE IF ~chk.accepted
          THEN /\ req' = [req EXCEPT ![r] =
                    [base EXCEPT !.pc = "done",
                                 !.response = RateLimitResponse(chk.retryAfterMs)]]
               /\ rlEntries' = [rlEntries EXCEPT !["health"] = chk.entries]
               /\ Audit(<<LogRateLimitExceededEntry(clientId, "health")>>)
               /\ UNCHANGED <<rlAccepted, cache, hits, misses>>
          ELSE /\ req' = [req EXCEPT ![r] =
                    [base EXCEPT !.pc = "awaitHealthGet",
                                 !.provider = HealthTarget(input),
                                 !.got = [found |-> g.found,
                                          value |-> IF g.found THEN g.value ELSE NoOutput],
                                 !.age = IF key \in DOMAIN cacheWritten
                                         THEN now - cacheWritten[key].setAt
                                         ELSE -1]]
               /\ rlEntries' = [rlEntries EXCEPT !["health"] = chk.entries]
               /\ rlAccepted' = [rlAccepted EXCEPT !["health"][clientId] = Append(@, now)]
               /\ cache' = g.cache
               /\ hits' = IF g.found THEN hits + 1 ELSE hits
               /\ misses' = IF g.found THEN misses ELSE misses + 1
               /\ UNCHANGED auditVars
    /\ UNCHANGED <<now, providers, includeSensitive, pureVars, rlLast, rlCalls,
                   cacheWritten, cacheLast, cacheSets>>

\* After `await cache.set`: return the fresh status.
HealthAfterCacheSet(r) ==
    /\ req[r].pc = "awaitHealthSet"
    /\ req' = [req EXCEPT ![r].pc = "done",
                          ![r].response = CreateToolResult(req[r].output, FALSE)]
    /\ UNCHANGED <<now, providers, includeSensitive, pureVars, rlVars, cacheVars,
                   auditVars>>

\* ------------------------------------------------------------------------
\* Normalization (normalization/judgment.ts)
\* ------------------------------------------------------------------------
MinOf(a, b) == IF a < b THEN a ELSE b

\* String.prototype.substring on a text given as its characters: both
\* indices are clamped to [0, length] and swapped when start > end
ClampIndex(i, len) == IF i < 0 THEN 0 ELSE IF i > len THEN len ELSE i
Substring(text, start, end) ==
    LET a == ClampIndex(start, Len(text))
        b == ClampIndex(end, Len(text))
    IN IF a <= b THEN SubSeq(text, a + 1, b) ELSE SubSeq(text, b + 1, a)

\* ContinuationInfo: hasNext is FALSE when nextOffsetChars is undefined
Continuation(truncated, endOffset, totalChars) ==
    [truncated |-> truncated, hasNext |-> truncated,
     nextOffsetChars |-> IF truncated THEN endOffset ELSE 0,
     totalChars |-> totalChars]

\* paginateContent(fullText, maxChars, offsetChars)
\* (PaginateContentKeepsOffset reports a next offset on the last window too)
PaginateContentKeepsOffset(fullText, maxChars, offsetChars) ==
    LET totalChars == Len(fullText)
        startOffset == MinOf(offsetChars, totalChars)
        endOffset == MinOf(startOffset + maxChars, totalChars)
    IN [text |-> Substring(fullText, startOffset, endOffset),
        continuation |-> [truncated |-> endOffset < totalChars, hasNext |-> TRUE,
                          nextOffsetChars |-> endOffset, totalChars |-> totalChars]]
\* (PaginateContentOverlapping starts every window one character early)
PaginateContentOverlapping(fullText, maxChars, offsetChars) ==
    LET totalChars == Len(fullText)
        startOffset == MinOf(offsetChars, totalChars)
        endOffset == MinOf(startOffset + maxChars, totalChars)
    IN [text |-> Substring(fullText, startOffset - 1, endOffset),
        continuation |-> Continuation(endOffset < totalChars, endOffset, totalChars)]
PaginateContent(fullText, maxChars, offsetChars) ==
    LET totalChars == Len(fullText)
        startOffset == MinOf(offsetChars, totalChars)
        endOffset == MinOf(startOffset + maxChars, totalChars)
    IN [text |-> Substring(fullText, startOffset, endOffset),
        continuation |-> Continuation(endOffset < totalChars, endOffset, totalChars)]

\* the pagination of SaosProvider.getJudgment: the start is not clamped
SaosPaginate(fullText, maxChars, offsetChars) ==
    LET totalChars == Len(fullText)
        startOffset == offsetChars
        endOffset == MinOf(startOffset + maxChars, totalChars)
    IN [text |-> Substring(fullText, startOffset, endOffset),
        continuation |-> Continuation(endOffset < totalChars, endOffset, totalChars)]

\* the detail response's window as each source of it computes it:
\* paginateContent itself, UzpProvider.getJudgment (which calls it) and
\* SaosProvider.getJudgment
Paginators == {"paginateContent", "uzp", "saos"}
Paginate(fn, fullText, maxChars, offsetChars) ==
    IF fn = "saos" THEN SaosPaginate(fullText, maxChars, offsetChars)
    ELSE PaginateContent(fullText, maxChars, offsetChars)

\* deduplicateArray: [...new Set(arr)], the first occurrence of each value
\* in the order of the array
RECURSIVE DeduplicateArray(_)
DeduplicateArray(arr) ==
    IF arr = <<>> THEN <<>>
    ELSE LET init == DeduplicateArray(SubSeq(arr, 1, Len(arr) - 1))
             last == arr[Len(arr)]
         IN IF \E i \in DOMAIN init : init[i] = last THEN init
            ELSE Append(init, last)

\* a value of an optional string field is truthy: neither undefined
\* ("none") nor ''
Truthy(x) == x # "none" /\ x # ""

\* the accumulator mergeMetadata starts from
EmptyMetadata ==
    [caseNumbers |-> <<>>, judgmentDate |-> "", judgmentType |-> "DECISION",
     decision |-> "none", legalBases |-> <<>>, judges |-> <<>>,
     keywords |-> <<>>, courtName |-> "none"]

\* one round of the loop of mergeMetadata
MergeOne(acc, source) ==
    [caseNumbers |-> IF Len(source.caseNumbers) > 0
                     THEN DeduplicateArray(acc.caseNumbers \o source.caseNumbers)
                     ELSE acc.caseNumbers,
     judgmentDate |-> IF Truthy(source.judgmentDate) THEN source.judgmentDate
                      ELSE acc.judgmentDate,
     judgmentType |-> IF Truthy(source.judgmentType) THEN source.judgmentType
                      ELSE acc.judgmentType,
     decision |-> IF source.decision # "none" THEN source.decision
                  ELSE acc.decision,
     legalBases |-> IF Len(source.legalBases) > 0
                    THEN DeduplicateArray(acc.legalBases \o source.legalBases)
                    ELSE acc.legalBases,
     judges |-> IF Len(source.judges) > 0
                THEN DeduplicateArray(acc.judges \o source.judges)
                ELSE acc.judges,
     keywords |-> IF Len(source.keywords) > 0
                  THEN DeduplicateArray(acc.keywords \o source.keywords)
                  ELSE acc.keywords,
     courtName |-> IF Truthy(source.courtName) THEN source.courtName
                   ELSE acc.courtName]

\* mergeMetadata(...sources)
RECURSIVE MergeFrom(_, _)
MergeFrom(acc, sources) ==
    IF sources = <<>> THEN acc
    ELSE MergeFrom(MergeOne(acc, Head(sources)), Tail(sources))
MergeMetadata(sources) == MergeFrom(EmptyMetadata, sources)

\* the next page of SaosProvider.search, from the info block of the SAOS
\* response; defined is FALSE when nextPage is undefined
\* (SaosNextPageOneBased compares the page number itself with the number of
\* pages)
SaosNextPageOneBased(info) ==
    LET totalPages == CeilDiv(info.totalResults, info.pageSize)
        currentPage == info.pageNumber
    IN [defined |-> currentPage < totalPages,
        value |-> IF currentPage < totalPages THEN currentPage + 1 ELSE 0]
SaosNextPage(info) ==
    LET totalPages == CeilDiv(info.totalResults, info.pageSize)
        currentPage == info.pageNumber
    IN [defined |-> currentPage + 1 < totalPages,
        value |-> IF currentPage + 1 < totalPages THEN currentPage + 1 ELSE 0]

\* the page fields of the SearchResponse that SaosProvider.search returns
SaosSearchPaging(info) ==
    [nextPage |-> SaosNextPage(info), totalCount |-> info.totalResults]

\* ------------------------------------------------------------------------
\* Date extraction (normalization/judgment.ts, providers/uzp/mapper.ts)
\* ------------------------------------------------------------------------
\* A text is a sequence of characters. The Polish letters with diacritics
\* are written as the base letter followed by ' or . ("s'" is U+015B, "z."
\* is U+017C); each is one character of the text.
DecimalDigits == <<"0", "1", "2", "3", "4", "5", "6", "7", "8", "9">>
IsDigit(c) == \E d \in 1..10 : DecimalDigits[d] = c
DigitValue(c) == (CHOOSE d \in 1..10 : DecimalDigits[d] = c) - 1
LowerCase == <<"a", "b", "c", "d", "e", "f", "g", "h", "i", "j", "k", "l", "m", "n", "o", "p", "q", "r", "s", "t", "u", "v", "w", "x", "y", "z", "a'", "c'", "e'", "l'", "n'", "o'", "s'", "z'", "z.">>
UpperCase == <<"A", "B", "C", "D", "E", "F", "G", "H", "I", "J", "K", "L", "M", "N", "O", "P", "Q", "R", "S", "T", "U", "V", "W", "X", "Y", "Z", "A'", "C'", "E'", "L'", "N'", "O'", "S'", "Z'", "Z.">>
\* [a-zA-Z] and the eighteen Polish letters of the pattern
IsLetter(c) == \E k \in 1..Len(LowerCase) : LowerCase[k] = c \/ UpperCase[k] = c
ToLowerChar(c) ==
    IF \E k \in 1..Len(UpperCase) : UpperCase[k] = c
    THEN LowerCase[CHOOSE k \in 1..Len(UpperCase) : UpperCase[k] = c]
    ELSE c
ToLowerCase(s) == [k \in 1..Len(s) |-> ToLowerChar(s[k])]
\* the table polishMonths
PolishMonths ==
    <<[name |-> <<"s", "t", "y", "c", "z", "n", "i", "a">>, number |-> <<"0", "1">>],
      [name |-> <<"l", "u", "t", "e", "g", "o">>, number |-> <<"0", "2">>],
      [name |-> <<"m", "a", "r", "c", "a">>, number |-> <<"0", "3">>],
      [name |-> <<"k", "w", "i", "e", "t", "n", "i", "a">>, number |-> <<"0", "4">>],
      [name |-> <<"m", "a", "j", "a">>, number |-> <<"0", "5">>],
      [name |-> <<"c", "z", "e", "r", "w", "c", "a">>, number |-> <<"0", "6">>],
      [name |-> <<"l", "i", "p", "c", "a">>, number |-> <<"0", "7">>],
      [name |-> <<"s", "i", "e", "r", "p", "n", "i", "a">>, number |-> <<"0", "8">>],
      [name |-> <<"w", "r", "z", "e", "s'", "n", "i", "a">>, number |-> <<"0", "9">>],
      [name |-> <<"p", "a", "z'", "d", "z", "i", "e", "r", "n", "i", "k", "a">>, number |-> <<"1", "0">>],
      [name |-> <<"l", "i", "s", "t", "o", "p", "a", "d", "a">>, number |-> <<"1", "1">>],
      [name |-> <<"g", "r", "u", "d", "n", "i", "a">>, number |-> <<"1", "2">>]>>
\* polishMonths is an object literal, so a lookup also finds the members it
\* inherits from Object.prototype: the constructor Object, the accessor
\* __proto__ (the prototype object) and the methods, all of them truthy
ObjectPrototypeMethods ==
    {<<"h", "a", "s", "O", "w", "n", "P", "r", "o", "p", "e", "r", "t", "y">>,
     <<"i", "s", "P", "r", "o", "t", "o", "t", "y", "p", "e", "O", "f">>,
     <<"p", "r", "o", "p", "e", "r", "t", "y", "I", "s", "E", "n", "u", "m", "e", "r", "a", "b", "l", "e">>,
     <<"t", "o", "L", "o", "c", "a", "l", "e", "S", "t", "r", "i", "n", "g">>,
     <<"t", "o", "S", "t", "r", "i", "n", "g">>,
     <<"v", "a", "l", "u", "e", "O", "f">>,
     <<"_", "_", "d", "e", "f", "i", "n", "e", "G", "e", "t", "t", "e", "r", "_", "_">>,
     <<"_", "_", "d", "e", "f", "i", "n", "e", "S", "e", "t", "t", "e", "r", "_", "_">>,
     <<"_", "_", "l", "o", "o", "k", "u", "p", "G", "e", "t", "t", "e", "r", "_", "_">>,
     <<"_", "_", "l", "o", "o", "k", "u", "p", "S", "e", "t", "t", "e", "r", "_", "_">>}
HasOwnMonth(monthName) == \E k \in 1..12 : PolishMonths[k].name = monthName
\* the guard polishMonths[monthName]: the value found is truthy
MonthKnown(monthName) ==
    \/ HasOwnMonth(monthName)
    \/ monthName = <<"c", "o", "n", "s", "t", "r", "u", "c", "t", "o", "r">>
    \/ monthName = <<"_", "_", "p", "r", "o", "t", "o", "_", "_">>
    \/ monthName \in ObjectPrototypeMethods
\* ${polishMonths[monthName]}: the value found, as the template literal
\* writes it
MonthNumber(monthName) ==
    IF HasOwnMonth(monthName)
    THEN PolishMonths[CHOOSE k \in 1..12 : PolishMonths[k].name = monthName].number
    ELSE IF monthName = <<"_", "_", "p", "r", "o", "t", "o", "_", "_">>
    THEN <<"[", "o", "b", "j", "e", "c", "t", " ", "O", "b", "j", "e", "c", "t", "]">>
    ELSE <<"f", "u", "n", "c", "t", "i", "o", "n", " ">>
             \o (IF monthName = <<"c", "o", "n", "s", "t", "r", "u", "c", "t", "o", "r">>
                 THEN <<"O", "b", "j", "e", "c", "t">> ELSE monthName)
             \o <<"(", ")", " ", "{", " ", "[", "n", "a", "t", "i", "v", "e", " ", "c", "o", "d", "e", "]", " ", "}">>

\* the first position at or after i whose character is not in the class
\* (Len(t) + 1 when the run reaches the end): a greedy run of the pattern
RunEnd(t, i, InClass(_)) ==
    CHOOSE j \in i..(Len(t) + 1) :
        /\ \A k \in i..(j - 1) : InClass(t[k])
        /\ j = Len(t) + 1 \/ ~InClass(t[j])
AllDigits(t, i, j) == j <= Len(t) /\ \A k \in i..j : IsDigit(t[k])

\* /\d{4}-\d{2}-\d{2}/ matches at position i
IsoMatchAt(t, i) ==
    /\ i + 9 <= Len(t)
    /\ AllDigits(t, i, i + 3) /\ t[i + 4] = "-"
    /\ AllDigits(t, i + 5, i + 6) /\ t[i + 7] = "-"
    /\ AllDigits(t, i + 8, i + 9)

\* /z\s+dnia\s+(\d{1,2})\s+([letters]+)\s+(\d{4})/i matched at position i:
\* the positions of its groups, or matched FALSE. Every class of the pattern
\* is followed by a different class, so each greedy run is the only split.
PolishMatchAt(t, i) ==
    LET s1 == i + 1
        w1 == RunEnd(t, s1, IsSpace)
        s2 == w1 + 4
        dayFrom == RunEnd(t, s2, IsSpace)
        dayEnd == RunEnd(t, dayFrom, IsDigit)
        monthFrom == RunEnd(t, dayEnd, IsSpace)
        monthEnd == RunEnd(t, monthFrom, IsLetter)
        yearFrom == RunEnd(t, monthEnd, IsSpace)
        ok == /\ i <= Len(t) /\ ToLowerChar(t[i]) = "z"
              /\ w1 > s1
              /\ w1 + 3 <= Len(t)
              /\ ToLowerCase(SubSeq(t, w1, w1 + 3)) = <<"d", "n", "i", "a">>
              /\ dayFrom > s2
              /\ dayEnd - dayFrom \in {1, 2}
              /\ monthFrom > dayEnd
              /\ monthEnd > monthFrom
              /\ yearFrom > monthEnd
              /\ AllDigits(t, yearFrom, yearFrom + 3)
    IN IF ok
       THEN [matched |-> TRUE,
             day |-> SubSeq(t, dayFrom, dayEnd - 1),
             month |-> SubSeq(t, monthFrom, monthEnd - 1),
             year |-> SubSeq(t, yearFrom, yearFrom + 3)]
       ELSE [matched |-> FALSE, day |-> <<>>, month |-> <<>>, year |-> <<>>]

\* String.prototype.padStart(2, '0')
PadStart2(s) == IF Len(s) < 2 THEN <<"0">> \o s ELSE s

\* a value of type string | undefined
Undefined == [defined |-> FALSE, value |-> <<>>]
Defined(s) == [defined |-> TRUE, value |-> s]

\* extractJudgmentDateFromText
ExtractJudgmentDateFromText(text) ==
    IF \E i \in 1..Len(text) : IsoMatchAt(text, i)
    THEN LET m == CHOOSE i \in 1..Len(text) :
                      /\ IsoMatchAt(text, i)
                      /\ \A k \in 1..(i - 1) : ~IsoMatchAt(text, k)
         IN Defined(SubSeq(text, m, m + 9))
    ELSE IF \E i \in 1..Len(text) : PolishMatchAt(text, i).matched
    THEN LET m == CHOOSE i \in 1..Len(text) :
                      /\ PolishMatchAt(text, i).matched
                      /\ \A k \in 1..(i - 1) : ~PolishMatchAt(text, k).matched
             polishMatch == PolishMatchAt(text, m)
             day == PadStart2(polishMatch.day)
             monthName == ToLowerCase(polishMatch.month)
             year == polishMatch.year
         IN IF MonthKnown(monthName)
            THEN Defined(year \o <<"-">> \o MonthNumber(monthName) \o <<"-">> \o day)
            ELSE Undefined
    ELSE Undefined

\* the judgmentDate of mapUzpMetadata: parsed.judgmentDate ?? ''
MapUzpJudgmentDate(html) ==
    LET parsed == ExtractJudgmentDateFromText(html)
    IN IF parsed.defined THEN parsed.value ELSE <<>>

\* ------------------------------------------------------------------------
\* Entity decoding (normalization/text-extractor.ts)
\* ------------------------------------------------------------------------
\* the characters with the codes 32..126
PrintableAscii ==
    <<" ", "!", "\"", "#", "$", "%", "&", "'", "(", ")", "*", "+", ",", "-", ".", "/",
      "0", "1", "2", "3", "4", "5", "6", "7", "8", "9", ":", ";", "<", "=", ">", "?",
      "@", "A", "B", "C", "D", "E", "F", "G", "H", "I", "J", "K", "L", "M", "N", "O",
      "P", "Q", "R", "S", "T", "U", "V", "W", "X", "Y", "Z", "[", "U+92", "]", "^", "_",
      "U+96", "a", "b", "c", "d", "e", "f", "g", "h", "i", "j", "k", "l", "m", "n", "o",
      "p", "q", "r", "s", "t", "u", "v", "w", "x", "y", "z", "{", "|", "}", "~">>
\* String.fromCharCode: one character; those outside 32..126 are written
\* "U+" and the decimal code, as are the backslash and the backquote
FromCharCode(num) ==
    LET code == num % 65536
    IN IF code \in 32..126 THEN PrintableAscii[code - 31]
       ELSE "U+" \o ToString(code)

\* the table entities, in the order of Object.entries
Entities ==
    <<[entity |-> <<"&", "n", "b", "s", "p", ";">>, char |-> <<FromCharCode(32)>>],
      [entity |-> <<"&", "a", "m", "p", ";">>, char |-> <<FromCharCode(38)>>],
      [entity |-> <<"&", "l", "t", ";">>, char |-> <<FromCharCode(60)>>],
      [entity |-> <<"&", "g", "t", ";">>, char |-> <<FromCharCode(62)>>],
      [entity |-> <<"&", "q", "u", "o", "t", ";">>, char |-> <<FromCharCode(34)>>],
      [entity |-> <<"&", "#", "3", "9", ";">>, char |-> <<FromCharCode(39)>>],
      [entity |-> <<"&", "a", "p", "o", "s", ";">>, char |-> <<FromCharCode(39)>>],
      [entity |-> <<"&", "m", "d", "a", "s", "h", ";">>, char |-> <<FromCharCode(8212)>>],
      [entity |-> <<"&", "n", "d", "a", "s", "h", ";">>, char |-> <<FromCharCode(8211)>>],
      [entity |-> <<"&", "h", "e", "l", "l", "i", "p", ";">>, char |-> <<FromCharCode(46), FromCharCode(46), FromCharCode(46)>>],
      [entity |-> <<"&", "l", "a", "q", "u", "o", ";">>, char |-> <<FromCharCode(171)>>],
      [entity |-> <<"&", "r", "a", "q", "u", "o", ";">>, char |-> <<FromCharCode(187)>>],
      [entity |-> <<"&", "b", "d", "q", "u", "o", ";">>, char |-> <<FromCharCode(8222)>>],
      [entity |-> <<"&", "l", "d", "q", "u", "o", ";">>, char |-> <<FromCharCode(34)>>],
      [entity |-> <<"&", "r", "d", "q", "u", "o", ";">>, char |-> <<FromCharCode(34)>>],
      [entity |-> <<"&", "l", "s", "q", "u", "o", ";">>, char |-> <<FromCharCode(8216)>>],
      [entity |-> <<"&", "r", "s", "q", "u", "o", ";">>, char |-> <<FromCharCode(8217)>>],
      [entity |-> <<"&", "b", "u", "l", "l", ";">>, char |-> <<FromCharCode(8226)>>],
      [entity |-> <<"&", "c", "o", "p", "y", ";">>, char |-> <<FromCharCode(169)>>],
      [entity |-> <<"&", "r", "e", "g", ";">>, char |-> <<FromCharCode(174)>>],
      [entity |-> <<"&", "t", "r", "a", "d", "e", ";">>, char |-> <<FromCharCode(8482)>>],
      [entity |-> <<"&", "s", "e", "c", "t", ";">>, char |-> <<FromCharCode(167)>>],
      [entity |-> <<"&", "p", "a", "r", "a", ";">>, char |-> <<FromCharCode(182)>>],
      [entity |-> <<"&", "d", "e", "g", ";">>, char |-> <<FromCharCode(176)>>],
      [entity |-> <<"&", "p", "l", "u", "s", "m", "n", ";">>, char |-> <<FromCharCode(177)>>],
      [entity |-> <<"&", "f", "r", "a", "c", "1", "2", ";">>, char |-> <<FromCharCode(189)>>],
      [entity |-> <<"&", "f", "r", "a", "c", "1", "4", ";">>, char |-> <<FromCharCode(188)>>],
      [entity |-> <<"&", "f", "r", "a", "c", "3", "4", ";">>, char |-> <<FromCharCode(190)>>],
      [entity |-> <<"&", "t", "i", "m", "e", "s", ";">>, char |-> <<FromCharCode(215)>>],
      [entity |-> <<"&", "d", "i", "v", "i", "d", "e", ";">>, char |-> <<FromCharCode(247)>>]>>

HexDigits == <<"0", "1", "2", "3", "4", "5", "6", "7", "8", "9",
               "a", "b", "c", "d", "e", "f">>
IsHexDigit(c) == \E d \in 1..16 : HexDigits[d] = ToLowerChar(c)
HexDigitValue(c) == (CHOOSE d \in 1..16 : HexDigits[d] = ToLowerChar(c)) - 1
\* A Number that holds an integer is written as its digits of base 65536, the
\* least significant first and without leading zeros (so 0 is <<>>), since
\* the integers of the model end at 2^31 - 1; Infinity has finite FALSE.
RECURSIVE Pow2(_)
Pow2(k) == IF k = 0 THEN 1 ELSE 2 * Pow2(k - 1)
Finite(limbs) == [finite |-> TRUE, digits |-> limbs]
Infinity == [finite |-> FALSE, digits |-> <<>>]
\* limbs * base + carry
RECURSIVE MulAdd(_, _, _)
MulAdd(limbs, base, carry) ==
    IF limbs = <<>> THEN (IF carry = 0 THEN <<>> ELSE <<carry>>)
    ELSE LET x == Head(limbs) * base + carry
         IN <<x % 65536>> \o MulAdd(Tail(limbs), base, x \div 65536)
\* limbs + v * 65536^(i - 1)
RECURSIVE AddAt(_, _, _)
AddAt(limbs, i, v) ==
    IF v = 0 THEN limbs
    ELSE IF i > Len(limbs) THEN Append(limbs, v)
    ELSE LET x == limbs[i] + v
         IN AddAt([limbs EXCEPT ![i] = x % 65536], i + 1, x \div 65536)
\* the mathematical integer that a run of digits of the base denotes
RECURSIVE MathInt(_, _)
MathInt(code, base) ==
    IF code = <<>> THEN <<>>
    ELSE MulAdd(MathInt(SubSeq(code, 1, Len(code) - 1), base), base,
                HexDigitValue(code[Len(code)]))
BitLength(limbs) ==
    IF limbs = <<>> THEN 0
    ELSE 16 * (Len(limbs) - 1)
             + (CHOOSE k \in 1..16 :
                    Pow2(k - 1) <= limbs[Len(limbs)] /\ limbs[Len(limbs)] < Pow2(k))
\* the bit of weight 2^k
BitAt(limbs, k) == (limbs[(k \div 16) + 1] \div Pow2(k % 16)) % 2
\* the Number nearest to the integer: 53 significant bits, a tie goes to the
\* even one, and Infinity from 2^1024 on
RoundToDouble(limbs) ==
    LET n == BitLength(limbs)
        shift == n - 53
        at == (shift \div 16) + 1
        unit == Pow2(shift % 16)
        up == /\ BitAt(limbs, shift - 1) = 1
              /\ \/ BitAt(limbs, shift) = 1
                 \/ \E j \in 0..(shift - 2) : BitAt(limbs, j) = 1
        truncated == [i \in 1..Len(limbs) |->
                         IF i < at THEN 0
                         ELSE IF i = at THEN (limbs[i] \div unit) * unit
                         ELSE limbs[i]]
        rounded == IF up THEN AddAt(truncated, at, unit) ELSE truncated
    IN IF n <= 53 THEN Finite(limbs)
       ELSE IF BitLength(rounded) > 1024 THEN Infinity
       ELSE Finite(rounded)
\* parseInt(code, base) of a run of digits of that base
ParseInt(code, base) == RoundToDouble(MathInt(code, base))
\* ToUint16, which String.fromCharCode applies to its argument: the integer
\* modulo 2^16, and 0 for Infinity
ToUint16(num) ==
    IF num.finite /\ num.digits # <<>> THEN num.digits[1] ELSE 0

\* new RegExp(entity, 'gi') matches at position i
EntityMatchAt(t, i, entity) ==
    /\ i + Len(entity) - 1 <= Len(t)
    /\ \A k \in 1..Len(entity) : ToLowerChar(t[i + k - 1]) = ToLowerChar(entity[k])

\* String.prototype.replace with a global pattern of fixed text: the matches
\* are taken from the left and do not overlap
\* (ReplaceFirst replaces the first match only, a pattern without the g flag)
RECURSIVE ReplaceAllFrom(_, _, _, _)
ReplaceAllFrom(t, i, entity, char) ==
    IF i > Len(t) THEN <<>>
    ELSE IF EntityMatchAt(t, i, entity)
    THEN char \o ReplaceAllFrom(t, i + Len(entity), entity, char)
    ELSE <<t[i]>> \o ReplaceAllFrom(t, i + 1, entity, char)
ReplaceFirst(t, entity, char) ==
    IF \E i \in 1..Len(t) : EntityMatchAt(t, i, entity)
    THEN LET m == CHOOSE i \in 1..Len(t) :
                      /\ EntityMatchAt(t, i, entity)
                      /\ \A k \in 1..(i - 1) : ~EntityMatchAt(t, k, entity)
         IN SubSeq(t, 1, m - 1) \o char \o SubSeq(t, m + Len(entity), Len(t))
    ELSE t
ReplaceAll(t, entity, char) == ReplaceAllFrom(t, 1, entity, char)

\* the loop over the named entities, from entry k of the table on
RECURSIVE DecodeNamedFrom(_, _)
DecodeNamedFrom(t, k) ==
    IF k > Len(Entities) THEN t
    ELSE DecodeNamedFrom(ReplaceAll(t, Entities[k].entity, Entities[k].char), k + 1)

\* /&#(\d+);/g and /&#x([0-9a-f]+);/gi: the end of the match that starts at
\* position i (the position of its ";"), 0 when there is none
DecimalEntityEnd(t, i) ==
    LET e == RunEnd(t, i + 2, IsDigit)
    IN IF /\ i + 3 <= Len(t) /\ t[i] = "&" /\ t[i + 1] = "#"
          /\ e > i + 2 /\ e <= Len(t) /\ t[e] = ";"
       THEN e ELSE 0
HexEntityEnd(t, i) ==
    LET e == RunEnd(t, i + 3, IsHexDigit)
    IN IF /\ i + 4 <= Len(t) /\ t[i] = "&" /\ t[i + 1] = "#"
          /\ ToLowerChar(t[i + 2]) = "x"
          /\ e > i + 3 /\ e <= Len(t) /\ t[e] = ";"
       THEN e ELSE 0

RECURSIVE DecodeDecimalFrom(_, _)
DecodeDecimalFrom(t, i) ==
    IF i > Len(t) THEN <<>>
    ELSE IF DecimalEntityEnd(t, i) # 0
    THEN <<FromCharCode(ToUint16(ParseInt(SubSeq(t, i + 2, DecimalEntityEnd(t, i) - 1), 10)))>>
             \o DecodeDecimalFrom(t, DecimalEntityEnd(t, i) + 1)
    ELSE <<t[i]>> \o DecodeDecimalFrom(t, i + 1)

RECURSIVE DecodeHexFrom(_, _)
DecodeHexFrom(t, i) ==
    IF i > Len(t) THEN <<>>
    ELSE IF HexEntityEnd(t, i) # 0
    THEN <<FromCharCode(ToUint16(ParseInt(SubSeq(t, i + 3, HexEntityEnd(t, i) - 1), 16)))>>
             \o DecodeHexFrom(t, HexEntityEnd(t, i) + 1)
    ELSE <<t[i]>> \o DecodeHexFrom(t, i + 1)

\* decodeHtmlEntities: the named entities one after the other, then the
\* decimal and then the hexadecimal numeric entities
\* (DecodeHtmlEntitiesFirstOnly replaces the first match of each named
\* entity only)
RECURSIVE DecodeNamedFirstFrom(_, _)
DecodeNamedFirstFrom(t, k) ==
    IF k > Len(Entities) THEN t
    ELSE DecodeNamedFirstFrom(ReplaceFirst(t, Entities[k].entity, Entities[k].char), k + 1)
DecodeHtmlEntitiesFirstOnly(text) ==
    DecodeHexFrom(DecodeDecimalFrom(DecodeNamedFirstFrom(text, 1), 1), 1)
DecodeHtmlEntities(text) ==
    DecodeHexFrom(DecodeDecimalFrom(DecodeNamedFrom(text, 1), 1), 1)

\* ------------------------------------------------------------------------
\* Health tool, one step per promise (tools/kio-health.ts)
\* ------------------------------------------------------------------------
\* Array.from(context.providers.keys()): the keys in insertion order
ProviderOrder == <<"saos", "uzp">>
ProvidersToCheckList(input, registered) ==
    IF input.provider # "none" THEN <<input.provider>>
    ELSE SelectSeq(ProviderOrder, LAMBDA p : p \in registered)

\* what provider.healthCheck() may do: report available or unavailable, or
\* throw
CheckOutcomes == {"available", "unavailable", "throws"}
\* the ProviderHealthStatus that the callback of a provider returns
NotConfiguredStatus(p) ==
    [provider |-> p, healthy |-> FALSE, error |-> "Provider not configured"]
\* (error is the message of the error: "thrown" the one that healthCheck
\* threw, "caught" the one that SaosProvider.healthCheck caught itself when
\* its search failed; UzpClient.healthCheck turns a failure into false, so
\* an unavailable UZP portal comes without an error)
CheckStatus(p, outcome) ==
    [provider |-> p, healthy |-> outcome = "available",
     error |-> IF outcome = "throws" THEN "thrown"
               ELSE IF outcome = "unavailable" /\ p = "saos" THEN "caught"
               ELSE "none"]

\* the output object with its provider statuses
HealthReport(target, results, stats, uptime) ==
    [tool |-> "health", provider |-> target, providerId |-> <<>>,
     query |-> "none", cached |-> FALSE,
     healthy |-> \A i \in DOMAIN results : results[i].healthy,
     providers |-> results,
     stats |-> stats, uptime |-> uptime]

\* After `await cache.get`: a cached status is returned as it is; otherwise
\* providersToCheck.map runs the callback of every provider up to its first
\* await: a provider that is not configured has its status at once, every
\* other provider's healthCheck is called (calledProvider: there is such a
\* provider), and the handler waits for Promise.all.
HealthDispatch(r) ==
    /\ req[r].pc = "awaitHealthGet"
    /\ LET list == ProvidersToCheckList(req[r].input, providers)
           ps == {list[i] : i \in DOMAIN list}
       IN IF req[r].got.found
          THEN req' = [req EXCEPT ![r].pc = "done",
                          ![r].response = CreateToolResult(req[r].got.value, TRUE)]
          ELSE req' = [req EXCEPT
                   ![r].pc = "awaitHealthAll",
                   ![r].calledProvider = (ps \cap providers # {}),
                   ![r].checks =
                       [p \in ps |->
                           IF p \in providers
                           THEN [started |-> TRUE, settled |-> FALSE,
                                 outcome |-> "none",
                                 status |-> NotConfiguredStatus(p)]
                           ELSE [started |-> FALSE, settled |-> TRUE,
                                 outcome |-> "notConfigured",
                                 status |-> NotConfiguredStatus(p)]]]
    /\ UNCHANGED <<now, providers, includeSensitive, pureVars, rlVars, cacheVars,
                   auditVars>>

\* The healthCheck of provider p settles: the callback logs the health
\* check and returns the status (the catch branch when it threw).
HealthCheckSettles(r, p, outcome) ==
    /\ req[r].pc = "awaitHealthAll"
    /\ p \in DOMAIN req[r].checks
    /\ ~req[r].checks[p].settled
    /\ req' = [req EXCEPT ![r].checks[p] =
                   [started |-> TRUE, settled |-> TRUE, outcome |-> outcome,
                    status |-> CheckStatus(p, outcome)],
                          ![r].finished = Append(@, p)]
    /\ Audit(<<LogHealthCheckEntry(p, outcome = "available")>>)
    /\ UNCHANGED <<now, providers, includeSensitive, pureVars, rlVars, cacheVars>>

\* After `await Promise.all`: every promise has settled; the results are in
\* the order of providersToCheck; the output is built and cache.set is
\* called.
\* (HealthJoinFirst goes on as soon as one promise has settled and takes the
\* statuses there are)
HealthJoinOn(r, list) ==
    /\ LET q == req[r]
           key == HealthCacheKey(q.input)
           results == [i \in DOMAIN list |-> q.checks[list[i]].status]
           output == HealthReport(q.provider, results,
                                  [hits |-> hits, misses |-> misses,
                                   size |-> Len(cache)], now)
           ttl == TtlFor("health")
           put == MapPut(cache, [key |-> BuildKey(key), value |-> output,
                                 expiresAt |-> 0, createdAt |-> 0])
           c2 == CacheSetOn(cache, key, output, [given |-> TRUE, ms |-> ttl], now)
           gone == KeysOf(put) \ KeysOf(c2)
           w == MapSet(cacheWritten, key,
                       [value |-> output, setAt |-> now, ttl |-> ttl])
       IN /\ req' = [req EXCEPT ![r].pc = "awaitHealthSet", ![r].output = output]
          /\ cache' = c2
          /\ cacheWritten' = [x \in (DOMAIN w) \ gone |-> w[x]]
    /\ UNCHANGED <<now, providers, includeSensitive, pureVars, rlVars, hits,
                   misses, cacheLast, cacheSets, auditVars>>
HealthJoinFirst(r) ==
    /\ req[r].pc = "awaitHealthAll"
    /\ \E p \in DOMAIN req[r].checks : req[r].checks[p].settled
    /\ HealthJoinOn(r, SelectSeq(ProvidersToCheckList(req[r].input, providers),
                                 LAMBDA p : req[r].checks[p].settled))
HealthJoin(r) ==
    /\ req[r].pc = "awaitHealthAll"
    /\ \A p \in DOMAIN req[r].checks : req[r].checks[p].settled
    /\ HealthJoinOn(r, ProvidersToCheckList(req[r].input, providers))

\* ------------------------------------------------------------------------
\* Search pages (providers/saos/provider.ts, tools/kio-search.ts)
\* ------------------------------------------------------------------------
\* The SAOS search API on a result set of total results, numbered 1..total
\* in the sort order: the page numbered pageNumber holds pageSize results,
\* the first page being the one numbered firstPage (the client asks for
\* page 0 when no page is given, and so does the health check); a page
\* before the first or after the last is empty. info echoes the request.
Min2(a, b) == IF a < b THEN a ELSE b
SaosApiSearch(total, pageSize, pageNumber, firstPage) ==
    LET index == pageNumber - firstPage
        from == index * pageSize + 1
        to == Min2((index + 1) * pageSize, total)
    IN [items |-> IF index < 0 THEN <<>>
                  ELSE [k \in 1..Max0(to - from + 1) |-> from + k - 1],
        info |-> [totalResults |-> total, pageSize |-> pageSize,
                  pageNumber |-> pageNumber]]

\* SaosProvider.search: pageSize is params.limit, pageNumber is params.page
SaosProviderSearch(params, total, firstPage) ==
    LET response == SaosApiSearch(total, params.limit, params.page, firstPage)
    IN [results |-> response.items,
        nextPage |-> SaosNextPage(response.info),
        totalCount |-> response.info.totalResults]

\* the output of executeKioSearch for a validated input (page >= 1)
KioSearchOutput(input, total, firstPage) ==
    LET response == SaosProviderSearch([limit |-> input.limit, page |-> input.page],
                                       total, firstPage)
    IN [results |-> response.results,
        pagination |-> [page |-> input.page, limit |-> input.limit,
                        total |-> response.totalCount,
                        hasMore |-> response.nextPage.defined]]

\* ------------------------------------------------------------------------
\* kio_get_source_links (tools/kio-get-source-links.ts)
\* ------------------------------------------------------------------------
\* context.rateLimiters.judgment.checkLimit(clientId)
\* (SourceLinksLimiterSearch admits source links through the search limiter)
SourceLinksLimiterSearch == "search"
SourceLinksLimiter == "judgment"

\* executeKioGetSourceLinks runs to its end without suspending:
\* validation, the rate limit, the provider lookup and the synchronous
\* getSourceLinks, which returns the links or throws (linksThrow).
ExecuteKioGetSourceLinks(r, clientId, input, linksThrow) ==
    /\ req[r].pc = "idle"
    /\ \A x \in 1..(r - 1) : req[x].pc # "idle"
    /\ LET base == [IdleReq EXCEPT !.tool = "links", !.clientId = clientId,
                                   !.input = input, !.after = Done,
                                   !.pc = "done"]
           l == SourceLinksLimiter
           chk == CheckLimitOn(rlEntries[l], RateLimits(l), clientId, now)
           provider == input.provider
       IN IF ~ValidateInput(input)
          THEN /\ req' = [req EXCEPT ![r] =
                    [base EXCEPT !.response =
                         CreateToolError("VALIDATION_ERROR", FALSE, 0)]]
               /\ UNCHANGED <<rlEntries, rlAccepted, auditEntries, auditCount,
                              auditHistory>>
          ELSE IF ~chk.accepted
          THEN /\ req' = [req EXCEPT ![r] =
                    [base EXCEPT !.response = RateLimitResponse(chk.retryAfterMs)]]
               /\ rlEntries' = [rlEntries EXCEPT ![l] = chk.entries]
               /\ Audit(<<LogRateLimitExceededEntry(clientId, "source_links")>>)
               /\ UNCHANGED rlAccepted
          ELSE IF ~ProviderRegistered(provider, providers)
          THEN /\ req' = [req EXCEPT ![r] =
                    [base EXCEPT !.provider = provider,
                                 !.response = ProviderNotFoundResponse]]
               /\ rlEntries' = [rlEntries EXCEPT ![l] = chk.entries]
               /\ rlAccepted' = [rlAccepted EXCEPT ![l][clientId] = Append(@, now)]
               /\ UNCHANGED <<auditEntries, auditCount, auditHistory>>
          ELSE IF linksThrow
          THEN /\ req' = [req EXCEPT ![r] =
                    [base EXCEPT !.provider = provider, !.calledProvider = TRUE,
                                 !.response =
                                     CreateToolError("INTERNAL_ERROR", TRUE, 0)]]
               /\ rlEntries' = [rlEntries EXCEPT ![l] = chk.entries]
               /\ rlAccepted' = [rlAccepted EXCEPT ![l][clientId] = Append(@, now)]
               /\ Audit(<<LogErrorEntry(clientId, provider, "get_source_links")>>)
          ELSE /\ req' = [req EXCEPT ![r] =
                    [base EXCEPT !.provider = provider, !.calledProvider = TRUE,
                                 !.response =
                                     CreateToolResult(
                                         BuildOutput("links", provider, input),
                                         FALSE)]]
               /\ rlEntries' = [rlEntries EXCEPT ![l] = chk.entries]
               /\ rlAccepted' = [rlAccepted EXCEPT ![l][clientId] = Append(@, now)]
               /\ UNCHANGED <<auditEntries, auditCount, auditHistory>>
    /\ UNCHANGED <<now, providers, includeSensitive, pureVars, rlLast, rlCalls,
                   cacheVars>>

\* ------------------------------------------------------------------------
\* The MCP response (server/tool-registry.ts)
\* ------------------------------------------------------------------------
\* formatToolResponse: a success is serialized as its data alone (the
\* wrapper's metadata is not sent); an error as code, retryable and, when
\* it is not 0, retryAfterMs
FormatToolResponse(response) ==
    IF response.success
    THEN [isError |-> FALSE, text |-> response.data]
    ELSE [isError |-> TRUE,
          text |-> [error |-> response.code, retryable |-> response.retryable,
                    retryAfterMs |-> response.retryAfterMs]]

\* ------------------------------------------------------------------------
\* Specifications
\* ------------------------------------------------------------------------
\* Date.now() advances; the records of the last calls describe calls made
\* at the current instant, so they are dropped when the clock moves.
Tick ==
    /\ now < MaxTime
    /\ now' = now + 1
    /\ rlLast' = NoCall
    /\ cacheLast' = [NoCacheCall EXCEPT !.closed = cacheLast.closed]
    /\ UNCHANGED <<rlEntries, rlAccepted, rlCalls>>
    /\ UNCHANGED <<cache, hits, misses, cacheWritten, cacheSets>>
    /\ UNCHANGED toolVars

Init ==
    /\ now = 0
    /\ RLInit
    /\ CacheInit
    /\ ToolInit

\* the limiter and the cache on their own, in the context that
\* createToolContext builds (both providers registered)
InitComponent ==
    /\ Init
    /\ providers = {"saos", "uzp"}

NextRateLimiter ==
    \/ Tick
    \/ \E l \in RLimiters, c \in Clients :
          /\ \/ CheckLimit(l, c)
             \/ GetRemainingRequests(l, c)
             \/ GetResetTime(l, c)
             \/ Reset(l, c)
          /\ UNCHANGED <<cacheVars, toolVars>>
    \/ \E l \in RLimiters :
          (Clear(l) \/ Cleanup(l)) /\ UNCHANGED <<cacheVars, toolVars>>

SpecRateLimiter == InitComponent /\ [][NextRateLimiter]_vars

NextCache ==
    \/ Tick
    \/ \E k \in CacheKeys :
          /\ CacheGet(k) \/ CacheHas(k) \/ CacheDelete(k)
          /\ UNCHANGED <<rlVars, toolVars>>
    \/ \E k \in CacheKeys, v \in {FreshValue}, ttlArg \in TtlArgs :
          CacheSet(k, v, ttlArg) /\ UNCHANGED <<rlVars, toolVars>>
    \/ (CacheClear \/ CacheCleanup \/ CacheClose) /\ UNCHANGED <<rlVars, toolVars>>

SpecCache == InitComponent /\ [][NextCache]_vars

\* The request pipeline: requests of both tools from several callers, run
\* concurrently, each suspended at its awaits.
Next ==
    \/ Tick
    \/ \E r \in Reqs, tool \in Tools, c \in Clients :
          \E input \in Inputs(tool) :
              Start(r, tool, c, input, FALSE, NoHandlerFault)
    \/ \E r \in Reqs : AfterCacheGet(r, NoHandlerFault)
    \/ \E r \in Reqs, u \in Upstream : AfterProvider(r, u, FALSE, NoHandlerFault)
    \/ \E r \in Reqs : AfterCacheSet(r, NoHandlerFault)

Spec == Init /\ [][Next]_vars

\* generateCacheKey as a function of two validated requests.  The query and
\* the provider id are free text and may hold the separator; the other
\* fields have the forms their schemas allow.
KeyQueries == {"none", "q", "q:KIO 1/20"}
KeyCaseNumbers == {"none", "KIO 1/20"}
KeyDates == {"none", "2020-01-01"}
KeyLimits == {20, 2}
KeyPages == {1, 20}
KeyProviderIds == {<<"7">>, <<"7", ":", "text">>}
KeyFormats == {"text", "html"}
KeyMaxChars == {40000, 4}
KeyOffsets == {0, 40}

\* the validated inputs of kio_search: query or case_number is present
SearchInputs ==
    {i \in [valid : {TRUE}, provider : Preferences("search"),
            providerId : {<<>>}, formatPreference : {"text"},
            maxChars : {40000}, offsetChars : {0},
            query : KeyQueries, caseNumber : KeyCaseNumbers,
            dateFrom : KeyDates, dateTo : KeyDates, judgmentType : {"none"},
            limit : KeyLimits, page : KeyPages, includeSnippets : BOOLEAN] :
        i.query # "none" \/ i.caseNumber # "none"}

\* the validated inputs of kio_get_judgment
JudgmentInputs ==
    [valid : {TRUE}, provider : Preferences("judgment"),
     providerId : KeyProviderIds, formatPreference : KeyFormats,
     maxChars : KeyMaxChars, offsetChars : KeyOffsets,
     query : {"none"}, caseNumber : {"none"}, dateFrom : {"none"},
     dateTo : {"none"}, judgmentType : {"none"}, limit : {20}, page : {1},
     includeSnippets : {TRUE}]

KeyRequests ==
    {[tool |-> "search", input |-> i] : i \in SearchInputs}
    \cup {[tool |-> "judgment", input |-> i] : i \in JudgmentInputs}

KeyOfRequest(a) ==
    GenerateCacheKey(a.tool, ResolveProvider(a.tool, a.input.provider), a.input)

InitCacheKey ==
    /\ now = 0
    /\ RLInit
    /\ CacheInit
    /\ req = [r \in Reqs |-> IdleReq]
    /\ providers = {"saos", "uzp"}
    /\ auditEntries = <<>>
    /\ auditCount = 0
    /\ auditHistory = <<>>
    /\ includeSensitive = FALSE
    /\ keyArgs \in KeyRequests \X KeyRequests
    /\ keyOf = <<>>
    /\ call = <<>>
    /\ result = <<>>

ComputeKeys ==
    /\ keyOf = <<>>
    /\ keyOf' = <<KeyOfRequest(keyArgs[1]), KeyOfRequest(keyArgs[2])>>
    /\ UNCHANGED <<now, rlVars, cacheVars, req, providers, auditVars,
                   includeSensitive, keyArgs, call, result>>

SpecCacheKey == InitCacheKey /\ [][ComputeKeys]_vars

\* The request pipeline with failing collaborators: the cache backend may
\* reject a get or a set, and the audit handler may throw in any log call.
\* One caller, three upstream outcomes (a result, a retryable HTTP error, a
\* timeout) and a clock that stands still keep the state space small: the
\* second request of a tool is then rejected by the judgment limiter or
\* finds the result of the first in the cache.
FaultUpstream ==
    {[kind |-> "response", status |-> 200, body |-> "kio"],
     [kind |-> "response", status |-> 500, body |-> "none"],
     [kind |-> "abort", status |-> 0, body |-> "none"]}

NextFaults ==
    \/ \E r \in Reqs, tool \in Tools, getThrows \in CacheFaults :
          \E input \in Inputs(tool), h \in HandlerFaults :
              Start(r, tool, "default", input, getThrows, h)
    \/ \E r \in Reqs, h \in HandlerFaults : AfterCacheGet(r, h)
    \/ \E r \in Reqs, u \in FaultUpstream, setThrows \in CacheFaults :
          \E h \in HandlerFaults : AfterProvider(r, u, setThrows, h)
    \/ \E r \in Reqs, h \in HandlerFaults : AfterCacheSet(r, h)

SpecFaults == Init /\ [][NextFaults]_vars

\* The three cached operations side by side: search, judgment and health
\* requests of two callers against an upstream that answers or fails.
TtlUpstream ==
    {[kind |-> "response", status |-> 200, body |-> "kio"],
     [kind |-> "response", status |-> 500, body |-> "none"]}

NextTtl ==
    \/ Tick
    \/ \E r \in Reqs, tool \in Tools, c \in Clients :
          \E input \in Inputs(tool) :
              Start(r, tool, c, input, FALSE, NoHandlerFault)
    \/ \E r \in Reqs : AfterCacheGet(r, NoHandlerFault)
    \/ \E r \in Reqs, u \in TtlUpstream : AfterProvider(r, u, FALSE, NoHandlerFault)
    \/ \E r \in Reqs : AfterCacheSet(r, NoHandlerFault)
    \/ \E r \in Reqs, c \in Clients, input \in HealthInputs : HealthStart(r, c, input)
    \/ \E r \in Reqs : HealthDispatch(r)
    \/ \E r \in Reqs, p \in {"saos", "uzp"}, outcome \in CheckOutcomes :
          HealthCheckSettles(r, p, outcome)
    \/ \E r \in Reqs : HealthJoin(r)
    \/ \E r \in Reqs : HealthAfterCacheSet(r)

SpecTtl == Init /\ [][NextTtl]_vars

\* The audit logger on its own: any sequence of log calls and clears, on a
\* logger built with or without the sensitive-data opt-in.
AuditKeys == {"search:saos:q:::::20:1", "judgment:saos:7:text:40000:0"}
AuditCalls ==
    {LogSearchEntry(includeSensitive, "default", "saos", "q"),
     LogJudgmentAccessEntry("default", "saos"),
     LogRateLimitExceededEntry("default", "search"),
     LogDomainBlockedEntry("default"),
     LogErrorEntry("default", "saos", "search")}
    \cup {LogCacheHitEntry(k, "saos") : k \in AuditKeys}
    \cup {LogCacheMissEntry(k, "saos") : k \in AuditKeys}
    \cup {LogHealthCheckEntry("saos", healthy) : healthy \in BOOLEAN}

InitAudit ==
    /\ now = 0
    /\ RLInit
    /\ CacheInit
    /\ req = [r \in Reqs |-> IdleReq]
    /\ providers = {"saos", "uzp"}
    /\ auditEntries = <<>>
    /\ auditCount = 0
    /\ auditHistory = <<>>
    /\ includeSensitive \in BOOLEAN
    /\ keyArgs = <<>>
    /\ keyOf = <<>>
    /\ call = <<>>
    /\ result = <<>>

\* one of the log methods is called
Log(entry) ==
    /\ auditCount < MaxLogs
    /\ Audit(<<entry>>)
    /\ UNCHANGED <<now, rlVars, cacheVars, req, providers, includeSensitive,
                   pureVars>>

\* clear(): entries.length = 0
AuditClear ==
    /\ auditEntries # <<>>
    /\ auditEntries' = <<>>
    /\ auditHistory' = <<>>
    /\ UNCHANGED <<now, rlVars, cacheVars, req, providers, includeSensitive,
                   pureVars, auditCount>>

NextAudit ==
    \/ \E entry \in AuditCalls : Log(entry)
    \/ AuditClear

SpecAudit == InitAudit /\ [][NextAudit]_vars

\* The audit log with its query for the recent entries
GetRecentEntries(count) ==
    /\ result' = <<[count |-> count,
                    entries |-> GetRecentEntriesOn(auditEntries, count)]>>
    /\ UNCHANGED <<now, rlVars, cacheVars, req, providers, includeSensitive,
                   keyVars, call, auditVars>>

NextAuditQuery ==
    \/ NextAudit
    \/ \E count \in 0..MaxCount : GetRecentEntries(count)

SpecAuditQuery == InitAudit /\ [][NextAuditQuery]_vars

\* Everything but the call under examination, as after construction; the
\* specifications of the pure functions start here.
PureInit ==
    /\ now = 0
    /\ RLInit
    /\ CacheInit
    /\ req = [r \in Reqs |-> IdleReq]
    /\ providers = {"saos", "uzp"}
    /\ auditEntries = <<>>
    /\ auditCount = 0
    /\ auditHistory = <<>>
    /\ includeSensitive = FALSE
    /\ keyArgs = <<>>
    /\ keyOf = <<>>
    /\ result = <<>>

PureUnchanged ==
    UNCHANGED <<now, rlVars, cacheVars, req, providers, auditVars,
                includeSensitive, keyVars, call>>

\* Pagination: a first call with any text, window size and offset, followed
\* while the response is truncated by calls at the returned nextOffsetChars.
Letters == <<"a", "b", "c", "d", "e", "f", "g">>
Texts == {SubSeq(Letters, 1, n) : n \in 0..MaxTextLen}
InitPaginate ==
    /\ PureInit
    /\ call \in [fn : Paginators, fullText : Texts, maxChars : 1..MaxChars,
                 offsetChars : (0 - MaxBelow)..(MaxTextLen + MaxChars)]

FirstWindow ==
    /\ result = <<>>
    /\ result' = <<Paginate(call.fn, call.fullText, call.maxChars, call.offsetChars)>>
    /\ PureUnchanged

FollowUpWindow ==
    /\ result # <<>>
    /\ result[Len(result)].continuation.hasNext
    /\ Len(result) <= MaxTextLen + MaxBelow
    /\ result' = Append(result,
                        Paginate(call.fn, call.fullText, call.maxChars,
                                 result[Len(result)].continuation.nextOffsetChars))
    /\ PureUnchanged

NextPaginate == FirstWindow \/ FollowUpWindow
SpecPaginate == InitPaginate /\ [][NextPaginate]_vars

\* mergeMetadata(a, b): a holds values, b adds to them, repeats them, leaves
\* them out (undefined, or an empty array) or gives an empty string
FirstSources ==
    [caseNumbers : {<<>>, <<"KIO 1/23", "KIO 2/23">>, <<"KIO 1/23", "KIO 1/23">>},
     judgmentDate : {"none", "2023-01-01"},
     judgmentType : {"none", "SENTENCE"},
     decision : {"none", "Oddala"},
     legalBases : {<<>>, <<"Art. 226">>},
     judges : {<<"Judge 1">>},
     keywords : {<<"k">>},
     courtName : {"none", "KIO"}]
SecondSources ==
    [caseNumbers : {<<>>, <<"KIO 2/23">>, <<"KIO 3/23", "KIO 1/23", "KIO 3/23">>},
     judgmentDate : {"none", "", "2023-06-01"},
     judgmentType : {"none", "DECISION"},
     decision : {"none", "", "Uwzglednia"},
     legalBases : {<<"Art. 224", "Art. 226">>},
     judges : {<<>>, <<"Judge 2">>},
     keywords : {<<>>},
     courtName : {"none", "", "Izba"}]

InitMerge ==
    /\ PureInit
    /\ call \in [a : FirstSources, b : SecondSources]

Merge ==
    /\ result = <<>>
    /\ result' = <<MergeMetadata(<<call.a, call.b>>)>>
    /\ PureUnchanged

SpecMerge == InitMerge /\ [][Merge]_vars

\* SaosProvider.search on any info block the SAOS API may return
InitSearchPaging ==
    /\ PureInit
    /\ call \in [totalResults : 0..MaxTotalResults, pageSize : 1..MaxPageSize,
                 pageNumber : 0..MaxPageNumber]

SearchPaging ==
    /\ result = <<>>
    /\ result' = <<SaosSearchPaging(call)>>
    /\ PureUnchanged

SpecSearchPaging == InitSearchPaging /\ [][SearchPaging]_vars

\* the pieces the explored texts are made of, and the texts: every
\* concatenation of at most MaxFragments pieces
Fragments ==
    {<<"2", "0", "2", "3">>,
     <<"-", "0", "2">>,
     <<"-", "3", "1">>,
     <<"3", "1">>,
     <<"9">>,
     <<"z", " ", "d", "n", "i", "a", " ">>,
     <<" ", "l", "u", "t", "e", "g", "o", " ">>,
     <<" ", "M", "a", "j", "a", " ">>,
     <<"Z", "U+12", "d", "n", "i", "a", "U+160">>,
     <<"\t", "C", "o", "n", "s", "t", "r", "u", "c", "t", "o", "r", "\n">>}
RECURSIVE Flatten(_)
Flatten(parts) ==
    IF parts = <<>> THEN <<>> ELSE Head(parts) \o Flatten(Tail(parts))
DateTexts ==
    {Flatten(parts) : parts \in UNION {[1..n -> Fragments] : n \in 0..MaxFragments}}

\* extractJudgmentDateFromText and mapUzpMetadata on any of the texts
InitExtractDate ==
    /\ PureInit
    /\ call \in [html : DateTexts]

ExtractDate ==
    /\ result = <<>>
    /\ result' = <<[extracted |-> ExtractJudgmentDateFromText(call.html),
                    judgmentDate |-> MapUzpJudgmentDate(call.html)]>>
    /\ PureUnchanged

SpecExtractDate == InitExtractDate /\ [][ExtractDate]_vars

\* the pieces the explored texts with entities are made of, and the texts
EntityFragments ==
    {<<"&">>,
     <<"a", "m", "p", ";">>,
     <<"l", "t", ";">>,
     <<"n", "b", "s", "p", ";">>,
     <<"#", "3", "8", ";">>,
     <<"#", "x", "2", "6", ";">>,
     <<"#", "9", "0", "0", "7", "1", "9", "9", "2", "5", "4", "7", "4", "0", "9", "9", "3", ";">>,
     <<"a">>}
EntityTexts ==
    {Flatten(parts) :
        parts \in UNION {[1..n -> EntityFragments] : n \in 0..MaxEntityFragments}}

\* decodeHtmlEntities on any of the texts, and once more on what it returned
InitDecode ==
    /\ PureInit
    /\ call \in [encoded : EntityTexts]

Decode ==
    /\ result = <<>>
    /\ result' = <<DecodeHtmlEntities(call.encoded)>>
    /\ PureUnchanged

DecodeAgain ==
    /\ Len(result) = 1
    /\ result' = Append(result, DecodeHtmlEntities(result[1]))
    /\ PureUnchanged

NextDecode == Decode \/ DecodeAgain

SpecDecode == InitDecode /\ [][NextDecode]_vars

\* Health requests with the health check of every provider as a step of its
\* own
NextHealth ==
    \/ Tick
    \/ \E r \in Reqs, c \in Clients, input \in HealthInputs : HealthStart(r, c, input)
    \/ \E r \in Reqs : HealthDispatch(r)
    \/ \E r \in Reqs, p \in {"saos", "uzp"}, outcome \in CheckOutcomes :
          HealthCheckSettles(r, p, outcome)
    \/ \E r \in Reqs : HealthJoin(r)
    \/ \E r \in Reqs : HealthAfterCacheSet(r)

SpecHealth == Init /\ [][NextHealth]_vars

\* Concurrent invocations: a second request of a caller may start while the
\* first one is suspended at an await of its handler.
NextConcurrent ==
    \/ Tick
    \/ \E r \in Reqs, tool \in Tools, c \in Clients :
          \E input \in Inputs(tool) :
              StartWithin(MaxConcurrent, r, tool, c, input, FALSE, NoHandlerFault)
    \/ \E r \in Reqs : AfterCacheGet(r, NoHandlerFault)
    \/ \E r \in Reqs, u \in TtlUpstream : AfterProvider(r, u, FALSE, NoHandlerFault)
    \/ \E r \in Reqs : AfterCacheSet(r, NoHandlerFault)

SpecConcurrent == Init /\ [][NextConcurrent]_vars

\* Requests against backends that may do anything: every upstream outcome
\* (answers, typed errors, a thrown non-Error, the abort of the timeout, a
\* body that never ends) and a cache whose get and set may throw. A handler
\* whose awaited promise settles is resumed (the in-memory cache resolves at
\* once; the HTTP client settles with the answer, the failure or the abort
\* of its timer); a provider call that has stalled never settles.
Resume ==
    \/ \E r \in Reqs : AfterCacheGet(r, NoHandlerFault)
    \/ \E r \in Reqs, u \in Upstream, setThrows \in CacheFaults :
          AfterProvider(r, u, setThrows, NoHandlerFault)
    \/ \E r \in Reqs : AfterCacheSet(r, NoHandlerFault)

NextBackends ==
    \/ \E r \in Reqs, tool \in Tools, getThrows \in CacheFaults :
          \E input \in Inputs(tool) :
              Start(r, tool, "default", input, getThrows, NoHandlerFault)
    \/ \E r \in Reqs : ProviderStalls(r)
    \/ Resume

SpecBackends == Init /\ [][NextBackends]_vars /\ WF_vars(Resume)

\* The rate limiter under checks, the passing of time and the periodic
\* cleanup, without reset and clear: what a caller that was turned away
\* meets when it comes back.
NextRetry ==
    \/ Tick
    \/ \E l \in RLimiters, c \in Clients :
          CheckLimit(l, c) /\ UNCHANGED <<cacheVars, toolVars>>
    \/ \E l \in RLimiters :
          Cleanup(l) /\ UNCHANGED <<cacheVars, toolVars>>

SpecRetry == InitComponent /\ [][NextRetry]_vars

\* A caller pages through a search: page 1 first, then the next page for as
\* long as the last response reports hasMore, against an upstream whose
\* result set does not change.
InitSearchPages ==
    /\ PureInit
    /\ call \in [total : 0..MaxTotalResults, limit : 1..MaxPageSize,
                 firstPage : {0, 1}]

SearchPage ==
    /\ IF result = <<>> THEN TRUE
       ELSE result[Len(result)].pagination.hasMore
    /\ result' = Append(result,
                        KioSearchOutput([page |-> Len(result) + 1,
                                         limit |-> call.limit],
                                        call.total, call.firstPage))
    /\ PureUnchanged

SpecSearchPages == InitSearchPages /\ [][SearchPage]_vars

\* Judgment, search and source-link requests of two callers over time
NextLinks ==
    \/ Tick
    \/ \E r \in Reqs, tool \in Tools, c \in Clients :
          \E input \in Inputs(tool) :
              Start(r, tool, c, input, FALSE, NoHandlerFault)
    \/ \E r \in Reqs : AfterCacheGet(r, NoHandlerFault)
    \/ \E r \in Reqs, u \in TtlUpstream : AfterProvider(r, u, FALSE, NoHandlerFault)
    \/ \E r \in Reqs : AfterCacheSet(r, NoHandlerFault)
    \/ \E r \in Reqs, c \in Clients, linksThrow \in BOOLEAN :
          \E input \in Inputs("judgment") :
              ExecuteKioGetSourceLinks(r, c, input, linksThrow)

SpecLinks == Init /\ [][NextLinks]_vars

\* Concurrent requests whose results can be told apart: the output a request
\* builds from the answer to its own provider call carries the number of
\* the request (two calls for the same judgment or search need not get the
\* same answer).
OwnOutput(r) ==
    [tool |-> req[r].tool, provider |-> req[r].provider,
     providerId |-> req[r].input.providerId, query |-> req[r].input.query,
     cached |-> FALSE, answer |-> r]

NextRace ==
    \/ \E r \in Reqs, tool \in Tools, c \in Clients :
          \E input \in Inputs(tool) :
              StartWithin(MaxConcurrent, r, tool, c, input, FALSE, NoHandlerFault)
    \/ \E r \in Reqs : AfterCacheGet(r, NoHandlerFault)
    \/ \E r \in Reqs, u \in TtlUpstream :
          AfterProviderStoring(OwnOutput(r), r, u, FALSE, NoHandlerFault)
    \/ \E r \in Reqs : AfterCacheSetReturning(OwnOutput(r), r, NoHandlerFault)

SpecRace == Init /\ [][NextRace]_vars

\* ------------------------------------------------------------------------
\* Properties of the rate limiter (SpecRateLimiter)
\* ------------------------------------------------------------------------
\* number of timestamps of s in the interval (lo, hi]
CountIn(s, lo, hi) == Cardinality({i \in DOMAIN s : s[i] > lo /\ s[i] <= hi})

\* C1: for every limiter, caller and time t, at most maxRequests checkLimit
\* calls of that caller were accepted with a timestamp in (t - windowMs, t],
\* whatever checkLimit, getRemainingRequests, getResetTime and cleanup calls
\* were made (the history restarts at a reset or clear).
C1_WindowBound ==
    \A l \in Limiters, c \in Clients, t \in 0..MaxTime :
        CountIn(rlAccepted[l][c], t - RateLimits(l).windowMs, t)
            <= RateLimits(l).maxRequests

\* a caller has used its whole budget in the current window and was rejected
C1_Witness ==
    /\ rlLast.op = "checkLimit"
    /\ ~rlLast.accepted
    /\ CountIn(rlAccepted[rlLast.limiter][rlLast.clientId],
               now - RateLimits(rlLast.limiter).windowMs, now)
         = RateLimits(rlLast.limiter).maxRequests

\* C5: a checkLimit made when maxRequests calls were accepted inside the
\* current window is rejected with retryAfter > 0; a checkLimit made when
\* fewer were accepted is accepted; and once windowMs has elapsed since the
\* last accepted call getRemainingRequests returns maxRequests (so that
\* maxRequests further calls are accepted).
C5_BudgetAndReset ==
    /\ rlLast.op = "checkLimit" =>
         LET cfg == RateLimits(rlLast.limiter)
             h == rlAccepted[rlLast.limiter][rlLast.clientId]
             before == IF rlLast.accepted THEN SubSeq(h, 1, Len(h) - 1) ELSE h
             used == CountIn(before, now - cfg.windowMs, now)
         IN /\ used >= cfg.maxRequests => (~rlLast.accepted /\ rlLast.value > 0)
            /\ used < cfg.maxRequests => rlLast.accepted
    /\ rlLast.op = "getRemainingRequests" =>
         LET cfg == RateLimits(rlLast.limiter)
             h == rlAccepted[rlLast.limiter][rlLast.clientId]
         IN (h = <<>> \/ now - h[Len(h)] >= cfg.windowMs)
               => rlLast.value = cfg.maxRequests

\* a caller spent its budget, waited one window and was accepted maxRequests
\* more times
C5_Witness ==
    /\ rlLast.op = "checkLimit"
    /\ rlLast.accepted
    /\ LET m == RateLimits(rlLast.limiter).maxRequests
           h == rlAccepted[rlLast.limiter][rlLast.clientId]
       IN /\ Len(h) = 2 * m
          /\ h[m + 1] - h[m] = RateLimits(rlLast.limiter).windowMs
          /\ h[1] = h[m]

\* ------------------------------------------------------------------------
\* Properties of the in-memory cache (SpecCache)
\* ------------------------------------------------------------------------
\* C6: a value stored by set(key, value, ttl) and not deleted, cleared,
\* overwritten or evicted since is returned by get (and reported by has) at
\* every time before ttl has elapsed and is absent at every time after ttl
\* has elapsed; an omitted ttl means the default TTL.
C6_TtlExpiry ==
    (cacheLast.op \in {"get", "has"} /\ cacheLast.key \in DOMAIN cacheWritten) =>
        LET w == cacheWritten[cacheLast.key]
            elapsed == now - w.setAt
        IN /\ elapsed < w.ttl =>
                 /\ cacheLast.found
                 /\ cacheLast.op = "get" => cacheLast.value = w.value
           /\ elapsed > w.ttl => ~cacheLast.found

\* a get finds nothing for a key whose default TTL has elapsed
C6_Witness ==
    /\ cacheLast.op = "get"
    /\ ~cacheLast.found
    /\ cacheLast.key \in DOMAIN cacheWritten
    /\ cacheWritten[cacheLast.key].ttl = DefaultTtlMs
    /\ now - cacheWritten[cacheLast.key].setAt > DefaultTtlMs

\* C7: the cache never holds more than maxEntries entries, after any
\* sequence of set, get, has, delete and clear.
C7_Capacity == Len(cache) <= CacheMaxEntries

\* a set has just evicted an entry of a full cache
C7_Witness ==
    /\ cacheLast.op = "set"
    /\ cacheLast.evicted > 0
    /\ Len(cache) = CacheMaxEntries

\* C8: the entries a set evicts have the earliest creation time among the
\* stored entries: no entry that stays is older than an evicted one.
C8_EvictsEarliestCreated ==
    [][(cacheLast'.op = "set" /\ cacheLast'.evicted > 0) =>
          \A i \in DOMAIN cache, j \in DOMAIN cache' :
              cache[i].key \notin KeysOf(cache')
                  => cache[i].createdAt <= cache'[j].createdAt]_vars

\* ------------------------------------------------------------------------
\* Properties of the request pipeline
\* ------------------------------------------------------------------------
\* request r has just been started by the step and ran to its first await
\* or to its end
Started(r) == req[r].pc = "idle" /\ req'[r].pc # "idle"

\* timestamps of the accepted requests of caller c on limiter l that are
\* still in the window at the current instant
InWindow(l, c) ==
    {rlAccepted[l][c][i] : i \in DOMAIN rlAccepted[l][c]}
        \cap ((now - RateLimits(l).windowMs + 1)..now)

\* C2: of two sequential kio_get_judgment calls with the same validated
\* parameters, the second made while the stored result is younger than the
\* judgment TTL and still in the cache, the second answers with cached = true
\* and does not call the provider, so getJudgment ran once (in the first).
C2_SecondCallCached ==
    \A r1 \in Reqs, r2 \in Reqs :
        ( /\ r1 < r2
          /\ req[r1].pc = "done" /\ req[r2].pc = "done"
          /\ req[r1].tool = "judgment" /\ req[r2].tool = "judgment"
          /\ req[r1].input.valid
          /\ req[r1].input = req[r2].input
          /\ req[r1].response.success
          /\ r1 \in req[r2].after
          /\ req[r2].response.code \notin {"RATE_LIMIT_EXCEEDED", "PROVIDER_NOT_FOUND"}
          /\ req[r2].age >= 0 /\ req[r2].age < JudgmentTtl )
        => /\ req[r2].response.success
           /\ req[r2].response.cached
           /\ ~req[r2].calledProvider
           /\ req[r1].calledProvider

\* the second call is answered from the cache one tick after the first
\* stored the judgment
C2_Witness ==
    \E r1 \in Reqs, r2 \in Reqs :
        /\ r1 < r2
        /\ req[r1].pc = "done" /\ req[r2].pc = "done"
        /\ req[r1].tool = "judgment" /\ req[r2].tool = "judgment"
        /\ req[r1].input.valid /\ req[r1].input = req[r2].input
        /\ req[r1].response.success /\ req[r1].calledProvider
        /\ r1 \in req[r2].after
        /\ req[r2].age = 1
        /\ req[r2].response.cached /\ ~req[r2].calledProvider

\* C3: a request with an invalid input ends at once with VALIDATION_ERROR,
\* retryable = false; the limiter's entries (the caller's budget), the cache
\* and its hit/miss counters are unchanged and no provider is called.
C3_InvalidInputStopsFirst ==
    [][\A r \in Reqs :
          (Started(r) /\ ~req'[r].input.valid)
          => /\ req'[r].pc = "done"
             /\ ~req'[r].response.success
             /\ req'[r].response.code = "VALIDATION_ERROR"
             /\ ~req'[r].response.retryable
             /\ ~req'[r].calledProvider
             /\ rlEntries' = rlEntries
             /\ cache' = cache /\ hits' = hits /\ misses' = misses]_vars

\* an invalid request was refused after an earlier request had used budget
C3_Witness ==
    \E r \in Reqs :
        /\ req[r].pc = "done"
        /\ ~req[r].input.valid
        /\ req[r].response.code = "VALIDATION_ERROR"
        /\ \E l \in Limiters : rlEntries[l] # EmptyMap

\* C4: a validated request started while its caller's budget on the tool's
\* limiter is used up ends with RATE_LIMIT_EXCEEDED, retryable = true and
\* retryAfterMs > 0 equal to the time until the oldest request in the window
\* leaves it; exactly one audit entry, of type rate_limit_exceeded, is
\* appended; the cache is not touched and no provider is called.
C4_RateLimitRejection ==
    [][\A r \in Reqs :
          (/\ Started(r)
           /\ req'[r].input.valid
           /\ Cardinality(InWindow(req'[r].tool, req'[r].clientId))
                  >= RateLimits(req'[r].tool).maxRequests)
          => LET q == req'[r]
                 S == InWindow(q.tool, q.clientId)
                 oldest == CHOOSE m \in S : \A x \in S : m <= x
             IN /\ q.pc = "done"
                /\ ~q.response.success
                /\ q.response.code = "RATE_LIMIT_EXCEEDED"
                /\ q.response.retryable
                /\ q.response.retryAfterMs > 0
                /\ q.response.retryAfterMs
                       = oldest + RateLimits(q.tool).windowMs - now
                /\ ~q.calledProvider
                /\ auditCount' = auditCount + 1
                /\ auditEntries'[Len(auditEntries')].eventType = "rate_limit_exceeded"
                /\ auditEntries'[Len(auditEntries')].clientId = q.clientId
                /\ cache' = cache /\ hits' = hits /\ misses' = misses]_vars

\* a request was rejected by the limiter one tick after the accepted one
C4_Witness ==
    \E r \in Reqs :
        /\ req[r].pc = "done"
        /\ req[r].response.code = "RATE_LIMIT_EXCEEDED"
        /\ req[r].response.retryAfterMs = 1
        /\ auditEntries # <<>>
        /\ auditEntries[Len(auditEntries)].eventType = "rate_limit_exceeded"

\* the error the provider call of request q ended with
ErrorOf(q) == ProviderCall(q.tool, q.provider, q.input.providerId, q.upstream).err

\* the upstream answered with a status of 500 or more or with 429, or the
\* transport failed (fetch rejected, or the body could not be read)
RetryableUpstream(u) ==
    \/ u.kind = "response" /\ (u.status >= 500 \/ u.status = 429)
    \/ u.kind = "network"
    \/ u.kind = "response" /\ u.body = "unparsable"

\* C9: a failed provider call is answered by the type of its error: a
\* ProviderError gives PROVIDER_ERROR with the error's own retryable flag,
\* which is true exactly for an upstream status >= 500 or 429 and for a
\* transport failure; a ValidationError gives a non-retryable
\* VALIDATION_ERROR; every other error gives a retryable INTERNAL_ERROR.
C9_ErrorClassification ==
    \A r \in Reqs :
        (req[r].pc = "done" /\ req[r].calledProvider /\ ~req[r].response.success)
        => LET q == req[r]
               e == ErrorOf(q)
           IN /\ e.cls = "ProviderError"
                    => /\ q.response.code = "PROVIDER_ERROR"
                       /\ q.response.retryable = e.isRetryable
                       /\ q.response.retryable <=> RetryableUpstream(q.upstream)
              /\ e.cls = "ValidationError"
                    => /\ q.response.code = "VALIDATION_ERROR"
                       /\ ~q.response.retryable
              /\ e.cls \notin {"ProviderError", "ValidationError"}
                    => /\ q.response.code = "INTERNAL_ERROR"
                       /\ q.response.retryable

\* one request failed with a non-retryable PROVIDER_ERROR (upstream 404 on
\* a search), another with a retryable one (upstream 429)
C9_Witness ==
    \E r1 \in Reqs, r2 \in Reqs :
        /\ req[r1].pc = "done" /\ req[r2].pc = "done"
        /\ req[r1].response.code = "PROVIDER_ERROR"
        /\ ~req[r1].response.retryable
        /\ req[r1].upstream.status = 404
        /\ req[r2].response.code = "PROVIDER_ERROR"
        /\ req[r2].response.retryable
        /\ req[r2].upstream.status = 429

\* the judgment asked for does not exist: the id has no number, the
\* upstream answers 404, or the record belongs to another court
Absent(q) ==
    /\ q.tool = "judgment"
    /\ \/ q.provider = "saos" /\ ParseIntIsNaN(q.input.providerId)
       \/ q.upstream.kind = "response" /\ q.upstream.status = 404
       \/ /\ q.provider = "saos"
          /\ q.upstream.kind = "response" /\ q.upstream.status = 200
          /\ q.upstream.body = "other"

\* C10: a detail fetch for an absent judgment is answered with an error
\* whose retryable flag is false.
C10_AbsentIsNotRetryable ==
    \A r \in Reqs :
        (req[r].pc = "done" /\ req[r].calledProvider /\ Absent(req[r]))
        => /\ ~req[r].response.success
           /\ ~req[r].response.retryable

\* the request was validated and admitted by its rate limiter
Admitted(q) ==
    /\ q.pc # "idle"
    /\ ValidateInput(q.input)
    /\ q.response.code # "RATE_LIMIT_EXCEEDED"

\* the provider the request resolves to is not in the provider map
Unregistered(q) ==
    ~(ResolveProvider(q.tool, q.input.provider) \in providers)

\* C11: a validated request (admitted by the rate limiter) that names a
\* provider not registered in the provider map is done with the error
\* PROVIDER_NOT_FOUND, retryable = false, and no provider method was called
\* for it: it never waited for a provider and no upstream exchange happened.
C11_UnregisteredProvider ==
    \A r \in Reqs :
        Admitted(req[r]) /\ Unregistered(req[r]) =>
            /\ req[r].pc = "done"
            /\ req[r].response.success = FALSE
            /\ req[r].response.code = "PROVIDER_NOT_FOUND"
            /\ req[r].response.retryable = FALSE
            /\ ~req[r].calledProvider
            /\ req[r].upstream = NoUpstream

C11_Witness ==
    \E r \in Reqs :
        /\ Admitted(req[r]) /\ Unregistered(req[r])
        /\ req[r].pc = "done"
        /\ req[r].input.provider = "uzp"
        /\ providers = {"saos"}

\* the request's key is in the cache and has not expired
CachedUnexpired(tool, input) ==
    LET key == BuildKey(GenerateCacheKey(tool, ResolveProvider(tool, input.provider), input))
    IN /\ HasKey(cache, key)
       /\ ~IsExpired(cache[IndexOfKey(cache, key)], now)

\* the step looks the cache up once
LooksUp == hits' + misses' = hits + misses + 1

\* C12 as stated: the cache is looked up before the provider is resolved, so
\* every validated and admitted request looks the cache up, and the request
\* that ends with PROVIDER_NOT_FOUND has had a cache miss.
C12_LookupBeforeResolution ==
    [][\A r \in Reqs :
          Started(r) /\ Admitted(req'[r]) =>
              /\ LooksUp
              /\ req'[r].response.code = "PROVIDER_NOT_FOUND" => misses' = misses + 1]_vars

\* the order that the search and detail handlers keep instead: Validating,
\* RateLimiting, provider resolution, CacheLookup, and only then dispatch.  A
\* validated and admitted request with an unregistered provider ends with
\* PROVIDER_NOT_FOUND without any cache lookup (the cache and its counters
\* are untouched); one with a registered provider looks the cache up exactly
\* once before anything is dispatched, and when its key is cached and
\* unexpired the lookup finds it and the request is answered from the cache
\* with cached = true and no provider call.  (The health handler looks the
\* cache up first, HealthStart and HealthDispatch.)
C12_ResolutionBeforeLookup ==
    [][\A r \in Reqs :
          /\ Started(r) /\ Admitted(req'[r]) /\ Unregistered(req'[r]) =>
                /\ req'[r].response.code = "PROVIDER_NOT_FOUND"
                /\ UNCHANGED <<cache, hits, misses>>
          /\ Started(r) /\ Admitted(req'[r]) /\ ~Unregistered(req'[r]) =>
                /\ LooksUp
                /\ req'[r].pc = "awaitCacheGet"
                /\ ~req'[r].calledProvider
                /\ CachedUnexpired(req'[r].tool, req'[r].input) =>
                       req'[r].got.found /\ hits' = hits + 1
          /\ req[r].pc = "awaitCacheGet" /\ req'[r].pc # "awaitCacheGet"
                /\ req[r].got.found =>
                /\ req'[r].pc = "done"
                /\ req'[r].response = CreateToolResult(req[r].got.value, TRUE)
                /\ ~req'[r].calledProvider]_vars

\* C16: every finished request that passed validation and failed (rejected
\* by the limiter, provider not registered, or provider call failed) has
\* left an audit entry with success = false that carries its caller and its
\* operation.
C16_FailuresAudited ==
    \A r \in Reqs :
        LET q == req[r]
        IN q.pc = "done" /\ ValidateInput(q.input) /\ ~q.response.success =>
              \E i \in DOMAIN auditHistory :
                  /\ auditHistory[i].success = FALSE
                  /\ auditHistory[i].clientId = q.clientId
                  /\ auditHistory[i].operation \in {q.tool, ErrorOperation(q.tool)}

\* the timestamps the limiter l holds for caller c
StampsOf(l, c) == IF c \in DOMAIN rlEntries[l] THEN rlEntries[l][c] ELSE <<>>

\* C17: the step in which a provider call fails or is aborted by its
\* deadline changes neither the cache (no entry is created, changed or
\* removed, and the counters stay) nor the limiter; the limiter was changed
\* for the request once, at its admission, by exactly one timestamp (the
\* admission time, appended to the timestamps still in the window), and no
\* later step of the request touches it.
C17_FailedCallLeavesState ==
    [][\A r \in Reqs :
          /\ req[r].pc = "awaitProvider" /\ req'[r].pc = "done" =>
                /\ ~req'[r].response.success
                /\ UNCHANGED <<cache, cacheWritten, hits, misses>>
                /\ UNCHANGED <<rlEntries, rlAccepted>>
          /\ Started(r) /\ Admitted(req'[r]) =>
                LET l == LimiterOf(req'[r].tool)
                    c == req'[r].clientId
                IN /\ rlEntries' = [rlEntries EXCEPT ![l] =
                          MapSet(@, c, Append(FilterWindow(StampsOf(l, c),
                                                           now - RateLimits(l).windowMs),
                                              now))]
                   /\ Len(rlAccepted'[l][c]) = Len(rlAccepted[l][c]) + 1
          /\ req[r].pc \notin {"idle", "done"} /\ req'[r] # req[r] =>
                UNCHANGED <<rlEntries, rlAccepted>>]_vars

\* a provider call was aborted by its deadline while the cache held the
\* result of an earlier request
C17_Witness ==
    /\ Len(cache) = 1
    /\ \E r \in Reqs :
          /\ req[r].pc = "done"
          /\ req[r].upstream.kind = "abort"
          /\ ~req[r].response.success
          /\ Len(StampsOf(LimiterOf(req[r].tool), req[r].clientId)) = 1

\* ------------------------------------------------------------------------
\* Properties of the TTL classes (SpecTtl)
\* ------------------------------------------------------------------------
\* the TTL class of each operation: search 15 minutes, judgment detail 7
\* days, health 1 minute
ClassTtl(tool) ==
    CASE tool = "search" -> SearchTtl
      [] tool = "judgment" -> JudgmentTtl
      [] tool = "health" -> HealthTtl

\* the request has looked its key up in the cache
LookedUp(q) == Admitted(q) /\ q.response.code # "PROVIDER_NOT_FOUND"
\* the request has a provider to go to: the registered provider of a search
\* or detail request, a configured provider among those a health request
\* covers
HasProvider(q) ==
    IF q.tool = "health"
    THEN \E i \in DOMAIN ProvidersToCheckList(q.input, providers) :
             ProvidersToCheckList(q.input, providers)[i] \in providers
    ELSE q.provider \in providers

\* C18: every stored result carries the TTL of its operation's class; a
\* request (admitted by its limiter) that looks up a key whose stored result
\* is younger than that TTL and was not evicted finds it, answers with
\* cached = true and never calls the provider; one that looks the key up
\* after the TTL has elapsed does not find it, is dispatched to the
\* provider (a health request to every configured provider it covers; one
\* that covers none builds its status without a call) and does not answer
\* with cached = true.
C18_TtlClasses ==
    /\ \A k \in DOMAIN cacheWritten :
          cacheWritten[k].ttl = ClassTtl(cacheWritten[k].value.tool)
    /\ \A r \in Reqs :
          LET q == req[r]
              waiting == q.pc \in {"awaitCacheGet", "awaitHealthGet"}
          IN LookedUp(q) /\ q.age >= 0 =>
                /\ q.age < ClassTtl(q.tool) =>
                      /\ q.got.found
                      /\ ~q.calledProvider
                      /\ ~waiting => q.pc = "done" /\ q.response.cached
                /\ q.age > ClassTtl(q.tool) =>
                      /\ ~q.got.found
                      /\ ~waiting /\ HasProvider(q) => q.calledProvider
                      /\ q.pc = "done" => ~q.response.cached

\* a health status stored by one caller was returned from the cache to the
\* next request, made before the health TTL elapsed
C18_Witness ==
    \E r \in Reqs :
        /\ req[r].tool = "health"
        /\ req[r].pc = "done"
        /\ req[r].age >= 0 /\ req[r].age < HealthTtl
        /\ req[r].response.cached

\* ------------------------------------------------------------------------
\* Properties of the audit trail (SpecAudit, Spec)
\* ------------------------------------------------------------------------
\* the last n elements of a sequence
LastN(seq, n) ==
    IF Len(seq) <= n THEN seq ELSE SubSeq(seq, Len(seq) - n + 1, Len(seq))

\* C19: after any sequence of log calls the trail holds at most maxEntries
\* entries, and they are the most recently logged ones (since construction
\* or the last clear) in the order they were logged: a log call on a full
\* trail drops the oldest entry.
C19_RingBuffer ==
    /\ Len(auditEntries) <= AuditMaxEntries
    /\ auditEntries = LastN(auditHistory, AuditMaxEntries)

\* more entries were logged than the trail holds, and the trail is full
C19_Witness ==
    /\ Len(auditHistory) > AuditMaxEntries
    /\ Len(auditEntries) = AuditMaxEntries
    /\ auditEntries[1] # auditHistory[1]

\* the field holds the text, on its own or between the other parts of a
\* cache key
KeyPrefixes == {"search:" \o p \o ":" : p \in {"saos", "uzp"}}
KeySuffixes ==
    {":" \o Join(SubSeq(SearchKeyParts("saos", i), 4, 9), ":") :
        i \in Inputs("search")}
Holds(field, text) ==
    \/ field = text
    \/ \E pre \in KeyPrefixes, suf \in KeySuffixes : field = pre \o text \o suf

\* C20: with includeSensitive not enabled, no audit entry that was logged
\* holds the query text of a search request in any of its fields.
C20_QueryRedacted ==
    ~includeSensitive =>
        \A r \in Reqs, i \in DOMAIN auditHistory :
            req[r].tool = "search" /\ req[r].input.query # "none" =>
                LET e == auditHistory[i]
                IN \A f \in DOMAIN e :
                      f # "success" => ~Holds(e[f], req[r].input.query)

\* ------------------------------------------------------------------------
\* Properties of the cache key (SpecCacheKey)
\* ------------------------------------------------------------------------
\* the parameters of a request that the result depends on: the operation,
\* the resolved provider and, for search, the query, the case number, the
\* date range, the judgment type, limit, page and include_snippets; for a
\* judgment, the id, the format and the character window
KeyParameters(a) ==
    IF a.tool = "search"
    THEN <<a.tool, ResolveProvider(a.tool, a.input.provider), a.input.query,
           a.input.caseNumber, a.input.dateFrom, a.input.dateTo,
           a.input.judgmentType, a.input.limit, a.input.page,
           a.input.includeSnippets>>
    ELSE <<a.tool, ResolveProvider(a.tool, a.input.provider),
           a.input.providerId, a.input.formatPreference, a.input.maxChars,
           a.input.offsetChars>>

\* C13: two validated requests have the same cache key if and only if they
\* agree on the operation, the resolved provider and every parameter that
\* affects the result, include_snippets among them for search.
C13_KeyInjective ==
    keyOf # <<>> =>
        (keyOf[1] = keyOf[2] <=> KeyParameters(keyArgs[1]) = KeyParameters(keyArgs[2]))

\* ------------------------------------------------------------------------
\* Properties of the pipeline with failing collaborators (SpecFaults)
\* ------------------------------------------------------------------------
\* the response of a request that missed a working cache and whose provider
\* call met the upstream outcome q.upstream
MissResponse(q) ==
    LET res == ProviderCall(q.tool, q.provider, q.input.providerId, q.upstream)
    IN IF res.ok
       THEN CreateToolResult(BuildOutput(q.tool, q.provider, q.input), FALSE)
       ELSE ClassifyError(res.err)

\* C14: a request whose cache get or cache set threw (and whose audit
\* handler did not) is not aborted: it calls the provider and finishes with
\* the response of a cache miss, the fresh result or the classified
\* provider error.
C14_CacheFaultIsAMiss ==
    \A r \in Reqs :
        LET q == req[r]
        IN (q.getThrew \/ q.setThrew) /\ ~q.auditThrew =>
              /\ q.pc # "idle"
              /\ q.pc # "awaitCacheGet" => q.calledProvider
              /\ q.pc = "done" => q.response = MissResponse(q)

\* one request finished with a fresh result although its get and its set
\* threw, and another with a provider error after its get threw
C14_Witness ==
    /\ \E r \in Reqs :
          /\ req[r].pc = "done" /\ req[r].getThrew /\ req[r].setThrew
          /\ ~req[r].auditThrew /\ req[r].response.success
    /\ \E r \in Reqs :
          /\ req[r].pc = "done" /\ req[r].getThrew /\ ~req[r].auditThrew
          /\ req[r].response.code = "PROVIDER_ERROR"

\* the response of a finished request when no audit call throws: a cached
\* value found by the lookup is returned with cached = true, a request that
\* never reached the lookup nor the provider was rejected by the limiter,
\* and a dispatched request gets the response of a miss
AuditFreeResponseIs(q, response) ==
    IF q.got.found THEN response = CreateToolResult(q.got.value, TRUE)
    ELSE IF ~q.calledProvider
         THEN response.code = "RATE_LIMIT_EXCEEDED" /\ response.retryable
         ELSE response = MissResponse(q)

\* C15: a request during which the audit handler threw finishes with the
\* response it has when the handler does not throw.
C15_AuditFaultHarmless ==
    \A r \in Reqs :
        req[r].pc = "done" /\ req[r].auditThrew =>
            AuditFreeResponseIs(req[r], req[r].response)

\* ------------------------------------------------------------------------
\* Properties of pagination (SpecPaginate)
\* ------------------------------------------------------------------------
\* the offset the i-th call was made with
OffsetOf(i) ==
    IF i = 1 THEN call.offsetChars
    ELSE result[i - 1].continuation.nextOffsetChars

\* the end offset of the window the i-th call returned: where it starts (the
\* offset, or the end of the text when the offset is beyond it) plus the
\* number of characters returned
WindowEnd(i) == MinOf(OffsetOf(i), Len(call.fullText)) + Len(result[i].text)

\* C21: in every detail response (paginateContent, the UZP adapter, the SAOS
\* adapter; maxChars >= 1, offset >= 0) nextOffsetChars is present iff
\* truncated is true, truncated is true iff the window's end offset is less
\* than the total length, nextOffsetChars is the window's end offset, and
\* totalChars is the length of the full text.
C21_Continuation ==
    call # <<>> /\ call.offsetChars >= 0 =>
        \A i \in DOMAIN result :
            LET c == result[i].continuation
            IN /\ c.hasNext <=> c.truncated
               /\ c.truncated <=> WindowEnd(i) < Len(call.fullText)
               /\ c.hasNext => c.nextOffsetChars = WindowEnd(i)
               /\ c.totalChars = Len(call.fullText)

\* a truncated window in the middle of the text and, after it, the last one
C21_Witness ==
    /\ call # <<>> /\ call.offsetChars > 0
    /\ Len(result) = 2
    /\ result[1].continuation.truncated
    /\ result[1].continuation.nextOffsetChars < Len(call.fullText)
    /\ ~result[2].continuation.hasNext

\* C22: paginateContent clamps the offset to [0, length]: an offset at or
\* beyond the length gives an empty window with truncated = false, an offset
\* below 0 gives exactly what offset 0 gives, and offset 0 with maxChars at
\* least the length gives the whole text, not truncated.
C22_OffsetClamped ==
    call # <<>> /\ call.fn = "paginateContent" /\ result # <<>> =>
        LET len == Len(call.fullText)
            r == result[1]
        IN /\ call.offsetChars >= len =>
                 r.text = <<>> /\ ~r.continuation.truncated
           /\ call.offsetChars < 0 =>
                 r = PaginateContent(call.fullText, call.maxChars, 0)
           /\ call.offsetChars = 0 /\ call.maxChars >= len =>
                 r.text = call.fullText /\ ~r.continuation.truncated

\* the windows returned so far, one after the other
RECURSIVE Concat(_)
Concat(rs) == IF rs = <<>> THEN <<>> ELSE Head(rs).text \o Concat(Tail(rs))

\* C23: starting at offset 0 and following nextOffsetChars with a fixed
\* maxChars >= 1, the i-th window is the characters (i-1)*maxChars up to
\* i*maxChars (or the end of the text): the windows are contiguous, do not
\* overlap and have min(maxChars, remaining) characters each; a window is
\* truncated iff it is not the ceil(len/maxChars)-th (the only window of an
\* empty text is not truncated), and when the last window is reached the
\* windows concatenated are the full text.
C23_WindowsTile ==
    call # <<>> /\ call.offsetChars = 0 =>
        LET len == Len(call.fullText)
            m == call.maxChars
            calls == IF len = 0 THEN 1 ELSE CeilDiv(len, m)
        IN /\ Len(result) <= calls
           /\ \A i \in DOMAIN result :
                 /\ OffsetOf(i) = (i - 1) * m
                 /\ result[i].text = SubSeq(call.fullText, (i - 1) * m + 1,
                                            MinOf(i * m, len))
                 /\ Len(result[i].text) = MinOf(m, len - (i - 1) * m)
                 /\ result[i].continuation.truncated <=> i < calls
                 /\ result[i].continuation.hasNext =>
                        result[i].continuation.nextOffsetChars = i * m
           /\ Len(result) = calls => Concat(result) = call.fullText

\* a text of five characters read in windows of two: 2, 2 and 1 characters
C23_Witness ==
    /\ call # <<>> /\ call.offsetChars = 0
    /\ Len(call.fullText) = 5 /\ call.maxChars = 2
    /\ Len(result) = 3
    /\ Len(result[3].text) = 1
    /\ ~result[3].continuation.truncated

\* ------------------------------------------------------------------------
\* Properties of mergeMetadata (SpecMerge)
\* ------------------------------------------------------------------------
ArrayFields == {"caseNumbers", "legalBases", "judges", "keywords"}
ScalarFields == {"judgmentDate", "judgmentType", "decision", "courtName"}

\* the sequence has no value twice and lists the values of src in the order
\* of their first occurrence in src
FirstSeenOrder(seq, src) ==
    LET first(v) == CHOOSE i \in DOMAIN src :
                        src[i] = v /\ \A j \in 1..(i - 1) : src[j] # v
    IN /\ \A i, j \in DOMAIN seq : i # j => seq[i] # seq[j]
       /\ {seq[i] : i \in DOMAIN seq} = {src[i] : i \in DOMAIN src}
       /\ \A i, j \in DOMAIN seq : i < j => first(seq[i]) < first(seq[j])

\* C24: merge(a, b) keeps every array element of a, keeps each scalar of a
\* (date, type, decision, court name) unless b's value for it is non-empty,
\* and its arrays are the deduplicated unions in first-seen order.
C24_MergeKeeps ==
    result # <<>> /\ "a" \in DOMAIN call =>
        LET m == result[1]
        IN /\ \A f \in ArrayFields :
                 /\ \A i \in DOMAIN call.a[f] :
                       \E j \in DOMAIN m[f] : m[f][j] = call.a[f][i]
                 /\ FirstSeenOrder(m[f], call.a[f] \o call.b[f])
           /\ \A f \in ScalarFields :
                 Truthy(call.a[f]) /\ ~Truthy(call.b[f]) => m[f] = call.a[f]

\* ------------------------------------------------------------------------
\* Properties of the search paging (SpecSearchPaging)
\* ------------------------------------------------------------------------
\* ceil(totalResults / pageSize): the least number of pages of pageSize
\* results that hold totalResults results
PagesFor(totalResults, pageSize) ==
    CHOOSE n \in 0..totalResults :
        /\ n * pageSize >= totalResults
        /\ \A k \in 0..(n - 1) : k * pageSize < totalResults

\* C25: in every search response of the SAOS adapter nextPage is defined iff
\* pageNumber + 1 < ceil(totalResults / pageSize), and is then
\* pageNumber + 1; it is undefined on the last page and when there are no
\* results.
C25_NextPage ==
    result # <<>> /\ "pageNumber" \in DOMAIN call =>
        LET pages == PagesFor(call.totalResults, call.pageSize)
            np == result[1].nextPage
        IN /\ np.defined <=> call.pageNumber + 1 < pages
           /\ np.defined => np.value = call.pageNumber + 1
           /\ call.pageNumber = pages - 1 => ~np.defined
           /\ call.totalResults = 0 => ~np.defined

\* the page before the last one of a result set that ends in a partial page
C25_Witness ==
    /\ result # <<>> /\ "pageNumber" \in DOMAIN call
    /\ call.totalResults = 5 /\ call.pageSize = 2 /\ call.pageNumber = 1
    /\ result[1].nextPage.defined
    /\ result[1].nextPage.value = 2

\* ------------------------------------------------------------------------
\* Properties of the date extraction (SpecExtractDate)
\* ------------------------------------------------------------------------
NumberOf(s, i, j) ==
    IF j - i = 1 THEN 10 * DigitValue(s[i]) + DigitValue(s[j])
    ELSE 1000 * DigitValue(s[i]) + 100 * DigitValue(s[i + 1])
             + 10 * DigitValue(s[i + 2]) + DigitValue(s[j])
IsLeapYear(y) == (y % 4 = 0 /\ y % 100 # 0) \/ y % 400 = 0
DaysInMonth(y, m) ==
    IF m = 2 THEN (IF IsLeapYear(y) THEN 29 ELSE 28)
    ELSE IF m \in {4, 6, 9, 11} THEN 30 ELSE 31
\* YYYY-MM-DD naming a real day
IsCalendarDate(s) ==
    /\ Len(s) = 10
    /\ IsoMatchAt(s, 1)
    /\ NumberOf(s, 6, 7) \in 1..12
    /\ NumberOf(s, 9, 10) \in 1..DaysInMonth(NumberOf(s, 1, 4), NumberOf(s, 6, 7))

\* C26: every judgmentDate that the date extraction and the HTML-portal
\* adapter produce is a valid ISO calendar date or the empty "unknown"
\* value.
C26_DateValidOrUnknown ==
    result # <<>> /\ "html" \in DOMAIN call =>
        /\ result[1].extracted.defined => IsCalendarDate(result[1].extracted.value)
        /\ result[1].judgmentDate = <<>> \/ IsCalendarDate(result[1].judgmentDate)

\* ------------------------------------------------------------------------
\* Properties of the entity decoding (SpecDecode)
\* ------------------------------------------------------------------------
Decoded == "encoded" \in DOMAIN call /\ Len(result) >= 1
DecodedTwice == "encoded" \in DOMAIN call /\ Len(result) = 2

\* the text holds the entity &amp; or a numeric entity: the entities whose
\* decoding may produce a piece of another entity
HoldsAmpOrNumeric(t) ==
    \E i \in 1..Len(t) :
        \/ EntityMatchAt(t, i, <<"&", "a", "m", "p", ";">>)
        \/ DecimalEntityEnd(t, i) # 0
        \/ HexEntityEnd(t, i) # 0
\* the text holds no entity at all: it is already decoded
HoldsNoEntity(t) ==
    /\ ~HoldsAmpOrNumeric(t)
    /\ \A k \in 1..Len(Entities) :
           \A i \in 1..Len(t) : ~EntityMatchAt(t, i, Entities[k].entity)

\* C27 as stated: for every input text, decoding the result of a decode once
\* more returns the same text.
C27_DecodeIdempotent ==
    DecodedTwice => result[2] = result[1]

\* C27 amended: a text that holds no entity is returned unchanged, and
\* decoding twice equals decoding once for every text that holds neither
\* &amp; nor a numeric entity.
C27_DecodeIdempotentOnDecoded ==
    /\ Decoded /\ HoldsNoEntity(call.encoded) => result[1] = call.encoded
    /\ DecodedTwice /\ ~HoldsAmpOrNumeric(call.encoded) => result[2] = result[1]

\* a text with two named entities was decoded twice
C27_Witness ==
    /\ DecodedTwice
    /\ call.encoded = <<"&", "l", "t", ";", "&", "l", "t", ";">>
    /\ result[1] = <<"<", "<">>
    /\ result[2] = result[1]

\* ------------------------------------------------------------------------
\* Properties of the health checks (SpecHealth)
\* ------------------------------------------------------------------------
\* the request has ended with a status it built itself
FreshlyDone(r) ==
    req[r].pc = "done" /\ req[r].response.success /\ ~req[r].response.cached
\* the request has left `await cache.get` with a miss
Dispatched(r) ==
    req[r].tool = "health"
        /\ (req[r].pc \in {"awaitHealthAll", "awaitHealthSet"} \/ FreshlyDone(r))
\* the request has gone on after Promise.all
Joined(r) ==
    req[r].tool = "health" /\ (req[r].pc = "awaitHealthSet" \/ FreshlyDone(r))
Requested(r) == ProvidersToCheckList(req[r].input, providers)

\* C28: a health request starts the health check of every configured
\* provider it covers before it waits for any of them, goes on only when all
\* have completed, and its response holds exactly one status per requested
\* provider, in the order requested, whatever the order of completion; a
\* provider whose check throws or that is not configured is reported as
\* unhealthy and the request succeeds.
C28_HealthChecksJoined ==
    \A r \in Reqs :
        /\ Dispatched(r) =>
               /\ DOMAIN req[r].checks = {Requested(r)[i] : i \in DOMAIN Requested(r)}
               /\ \A p \in DOMAIN req[r].checks :
                      IF p \in providers THEN req[r].checks[p].started
                      ELSE req[r].checks[p].outcome = "notConfigured"
        /\ Joined(r) =>
               /\ \A p \in DOMAIN req[r].checks : req[r].checks[p].settled
               /\ Len(req[r].output.providers) = Len(Requested(r))
               /\ \A i \in DOMAIN Requested(r) :
                      LET p == Requested(r)[i]
                          s == req[r].output.providers[i]
                      IN /\ s.provider = p
                         /\ s.healthy <=> req[r].checks[p].outcome = "available"
                         /\ req[r].checks[p].outcome \in {"throws", "notConfigured"}
                                => ~s.healthy
               /\ req[r].output.healthy <=>
                      \A p \in DOMAIN req[r].checks :
                          req[r].checks[p].outcome = "available"
               /\ req[r].pc = "done" =>
                      req[r].response = CreateToolResult(req[r].output, FALSE)

\* both providers were checked, the second finished first and the first
\* threw; the response lists them in the order requested
C28_Witness ==
    \E r \in Reqs :
        /\ req[r].pc = "done" /\ Joined(r)
        /\ Requested(r) = <<"saos", "uzp">>
        /\ req[r].finished = <<"uzp", "saos">>
        /\ req[r].checks["saos"].outcome = "throws"
        /\ req[r].output.providers[1].provider = "saos"
        /\ ~req[r].output.providers[1].healthy
        /\ req[r].output.providers[2].healthy

\* a request for a provider that is not configured succeeded and reports it
\* as unhealthy
C28_NotConfiguredWitness ==
    \E r \in Reqs :
        /\ req[r].pc = "done" /\ Joined(r)
        /\ Requested(r) = <<"uzp">> /\ "uzp" \notin providers
        /\ req[r].output.providers = <<NotConfiguredStatus("uzp")>>
        /\ req[r].response.success

\* ------------------------------------------------------------------------
\* Properties of concurrent requests (SpecConcurrent)
\* ------------------------------------------------------------------------
\* the timestamps the limiter holds for a caller
Recorded(l, c) == IF c \in DOMAIN rlEntries[l] THEN rlEntries[l][c] ELSE <<>>
\* two requests of one caller for one operation, the second made while the
\* first was suspended (not yet finished when the second started)
Overlapping(r1, r2) ==
    /\ r1 < r2
    /\ req[r1].pc # "idle" /\ req[r2].pc # "idle"
    /\ req[r1].tool = req[r2].tool /\ req[r1].clientId = req[r2].clientId
    /\ r1 \notin req[r2].after

\* C29: whatever the interleaving of concurrent requests of one caller for
\* one operation, every admitted request is in the limiter's list before
\* the next check reads it, so no two requests are admitted on the same
\* count and at most maxRequests are admitted within any window.
C29_CheckAndRecordAtomic ==
    \A l \in RLimiters, c \in Clients :
        /\ FilterWindow(Recorded(l, c), now - RateLimits(l).windowMs)
               = FilterWindow(rlAccepted[l][c], now - RateLimits(l).windowMs)
        /\ \A t \in 0..MaxTime :
               CountIn(rlAccepted[l][c], t - RateLimits(l).windowMs, t)
                   <= RateLimits(l).maxRequests

\* a judgment request was rejected by the limiter while the admitted request
\* of the same caller was still suspended
C29_Witness ==
    /\ Overlapping(1, 2)
    /\ req[1].tool = "judgment"
    /\ req[1].pc \in {"awaitCacheGet", "awaitProvider", "awaitCacheSet"}
    /\ req[2].pc = "done"
    /\ req[2].response.code = "RATE_LIMIT_EXCEEDED"

\* ------------------------------------------------------------------------
\* Independence of the budgets (SpecRateLimiter)
\* ------------------------------------------------------------------------
\* what a (limiter, caller) pair would get from the limiter in a state: its
\* remaining budget and the outcome of a checkLimit call
BudgetOf(entries, l, c, t) ==
    [remaining |-> GetRemainingRequestsOn(entries[l], RateLimits(l), c, t),
     accepted |-> CheckLimitOn(entries[l], RateLimits(l), c, t).accepted]

\* C30: a checkLimit call (accepted or rejected) or a reset for one
\* (limiter, caller) pair leaves the remaining budget and the accept/reject
\* outcome of every other caller and of every other limiter as they were.
C30_BudgetsIndependent ==
    [][(now' = now /\ rlLast'.op \in {"checkLimit", "reset"}) =>
          \A l \in Limiters, c \in Clients :
              (l # rlLast'.limiter \/ c # rlLast'.clientId) =>
                  BudgetOf(rlEntries', l, c, now) = BudgetOf(rlEntries, l, c, now)]_vars

\* a caller has exhausted its budget of one limiter and was rejected, while
\* another caller, that had used a part of its budget of this limiter, and
\* the caller's own budget of the other limiter are untouched
C30_Witness ==
    /\ rlLast.op = "checkLimit" /\ ~rlLast.accepted
    /\ rlLast.limiter = "search" /\ rlLast.clientId = "c1"
    /\ BudgetOf(rlEntries, "search", "default", now)
           = [remaining |-> SearchMaxRequests - 1, accepted |-> TRUE]
    /\ BudgetOf(rlEntries, "judgment", "c1", now)
           = [remaining |-> JudgmentMaxRequests, accepted |-> TRUE]

\* ------------------------------------------------------------------------
\* The read-only projections of the limiter (SpecRateLimiter)
\* ------------------------------------------------------------------------
\* C31: getRemainingRequests and getResetTime leave the limiter as it is;
\* getRemainingRequests(c) is maxRequests minus the number of c's recorded
\* timestamps newer than now - windowMs; and checkLimit(c) accepts exactly
\* when getRemainingRequests(c) at the same instant is positive.
C31_ReadOnlyProjections ==
    [][now' = now =>
          LET l == rlLast'.limiter
              c == rlLast'.clientId
          IN /\ rlLast'.op \in {"getRemainingRequests", "getResetTime"} =>
                    rlEntries' = rlEntries /\ rlAccepted' = rlAccepted
             /\ rlLast'.op = "getRemainingRequests" =>
                    /\ rlLast'.value =
                           RateLimits(l).maxRequests
                               - CountIn(Recorded(l, c), now - RateLimits(l).windowMs, now)
                    /\ rlLast'.value > 0 <=>
                           CheckLimitOn(rlEntries[l], RateLimits(l), c, now).accepted
             /\ (rlLast'.op = "checkLimit" /\ rlCalls' = rlCalls + 1) =>
                    (rlLast'.accepted <=>
                         GetRemainingRequestsOn(rlEntries[l], RateLimits(l), c, now) > 0)
    ]_vars

\* getRemainingRequests was asked while the caller's list still held a
\* timestamp that had left the window, and counted only the live one
C31_Witness ==
    /\ rlLast.op = "getRemainingRequests"
    /\ rlLast.limiter = "search"
    /\ Len(Recorded("search", rlLast.clientId)) = 2
    /\ CountIn(Recorded("search", rlLast.clientId), now - WindowMs, now) = 1
    /\ rlLast.value = SearchMaxRequests - 1

\* ------------------------------------------------------------------------
\* The counters of the in-memory cache (SpecCache)
\* ------------------------------------------------------------------------
\* the cache holds an entry for the key that has not expired at time t
Live(c, k, t) == \E i \in DOMAIN c : c[i].key = k /\ t <= c[i].expiresAt

\* C32: every get adds exactly one to hits + misses: one miss for an absent
\* or expired key (the expired entry is deleted), one hit for a live key;
\* has, set, delete, close and the sweep leave the counters alone and clear sets
\* both to 0, so hits + misses is the number of get calls since creation or
\* the last clear; stats().hitRate is hits / (hits + misses), and 0 when
\* there was no get.
C32_CountersCountGets ==
    [][now' = now =>
          /\ cacheLast'.op = "get" =>
                 IF Live(cache, BuildKey(cacheLast'.key), now)
                 THEN hits' = hits + 1 /\ misses' = misses /\ cacheLast'.found
                 ELSE /\ hits' = hits /\ misses' = misses + 1
                      /\ ~cacheLast'.found
                      /\ ~HasKey(cache', BuildKey(cacheLast'.key))
          /\ cacheLast'.op \in {"has", "set", "delete", "cleanup", "close"} =>
                 hits' = hits /\ misses' = misses
          /\ cacheLast'.op = "clear" => hits' = 0 /\ misses' = 0
          /\ LET st == CacheStats(cache', hits', misses')
             IN /\ st.hits = hits' /\ st.misses = misses'
                /\ IF hits' + misses' = 0 THEN st.hitRate.num = 0
                   ELSE st.hitRate.num * (hits' + misses')
                            = hits' * st.hitRate.den
    ]_vars

\* one hit and one miss, the miss being the get of an entry that had expired
\* and was deleted by it: the hit rate is one half
C32_Witness ==
    /\ cacheLast.op = "get" /\ ~cacheLast.found
    /\ cacheLast.key \in DOMAIN cacheWritten
    /\ now > cacheWritten[cacheLast.key].setAt + cacheWritten[cacheLast.key].ttl
    /\ ~HasKey(cache, cacheLast.key)
    /\ hits = 1 /\ misses = 1
    /\ CacheStats(cache, hits, misses).hitRate = [num |-> 1, den |-> 2]

\* ------------------------------------------------------------------------
\* One response per request (SpecBackends)
\* ------------------------------------------------------------------------
ErrorCodes == {"VALIDATION_ERROR", "RATE_LIMIT_EXCEEDED", "PROVIDER_NOT_FOUND",
               "PROVIDER_ERROR", "INTERNAL_ERROR"}
\* success data, or an error with a code and a retryability flag
WellFormed(response) ==
    IF response.success
    THEN response.code = "OK" /\ response.data # NoOutput
    ELSE response.code \in ErrorCodes /\ response.retryable \in BOOLEAN
             /\ response.data = NoOutput
Answered(r) == req[r].pc = "done" /\ WellFormed(req[r].response)

\* C33: whatever the provider and the cache do, every request that was made
\* ends with a response, success data or an error with a code and a
\* retryability flag; the response, once given, stays the one response of
\* the request; and no exception leaves the handler.
C33_OneResponse ==
    /\ \A r \in Reqs : (req[r].pc # "idle") ~> Answered(r)
    /\ [](\A r \in Reqs : req[r].pc = "done" => Answered(r))
    /\ [][\A r \in Reqs : req[r].pc = "done" => req'[r] = req[r]]_vars

\* the part of C33 that the code keeps: a request whose provider call
\* settles ends with one well-formed response, and a request without a
\* response is one whose provider call has stalled
C33_OneResponseUnlessStalled ==
    /\ \A r \in Reqs : (req[r].pc # "idle") ~> (Answered(r) \/ Stalled(r))
    /\ [](\A r \in Reqs : req[r].pc = "done" => Answered(r))
    /\ [][\A r \in Reqs : req[r].pc = "done" => req'[r] = req[r]]_vars

\* ------------------------------------------------------------------------
\* Waiting out a rejection (SpecRetry)
\* ------------------------------------------------------------------------
\* the last call was a checkLimit of caller c on limiter l
CheckedBy(l, c) ==
    rlLast.op = "checkLimit" /\ rlLast.limiter = l /\ rlLast.clientId = c
\* ... and it was rejected with a retryAfter that ends at time d
RejectedUntil(l, c, d) ==
    CheckedBy(l, c) /\ ~rlLast.accepted /\ now + rlLast.value = d
Deadlines == 0..(MaxTime + WindowMs)

\* C34: when checkLimit rejects a caller at time now with retryAfter, then
\* retryAfter > 0 and is the oldest recorded timestamp of the window plus
\* windowMs minus now; from then on every checkLimit of that caller made
\* before now + retryAfter is rejected, and the checkLimit made at
\* now + retryAfter is accepted (a rejection at that instant comes only
\* after a call accepted at that instant), however many rejected calls were
\* made in between.
C34_RetryAfterIsExact ==
    \A l \in RLimiters, c \in Clients, d \in Deadlines :
        [](RejectedUntil(l, c, d) =>
             /\ rlLast.value > 0
             /\ LET kept == FilterWindow(Recorded(l, c),
                                         now - RateLimits(l).windowMs)
                IN kept # <<>> /\ d = MinOfSeq(kept) + RateLimits(l).windowMs
             /\ [](CheckedBy(l, c) =>
                     /\ now < d => ~rlLast.accepted
                     /\ (now = d /\ ~rlLast.accepted) =>
                           \E i \in DOMAIN rlAccepted[l][c] :
                               rlAccepted[l][c][i] = d))

\* a caller that used its budget was rejected twice (no other caller made
\* a call) and was accepted at the instant the first timestamp left the
\* window
C34_Witness ==
    \E l \in RLimiters, c \in Clients :
        /\ CheckedBy(l, c) /\ rlLast.accepted
        /\ rlCalls >= RateLimits(l).maxRequests + 3
        /\ \A l2 \in RLimiters, c2 \in Clients :
               (l2 # l \/ c2 # c) => rlAccepted[l2][c2] = <<>>
        /\ LET h == rlAccepted[l][c]
           IN /\ Len(h) = RateLimits(l).maxRequests + 1
              /\ h[Len(h)] = now
              /\ h[1] + RateLimits(l).windowMs = now

\* ------------------------------------------------------------------------
\* Properties of the search pages (SpecSearchPages)
\* ------------------------------------------------------------------------
RECURSIVE ResultsOf(_)
ResultsOf(pages) ==
    IF pages = <<>> THEN <<>>
    ELSE Head(pages).results \o ResultsOf(Tail(pages))

\* C35: page 1 of a search holds the first results of the upstream (the
\* first limit of them, or all when there are fewer), and the pages 1, 2,
\* ... requested while hasMore is reported hold every result exactly once,
\* none skipped.
C35_PagesCoverResults ==
    result # <<>> /\ "firstPage" \in DOMAIN call =>
        /\ result[1].results
             = [k \in 1..Min2(call.limit, call.total) |-> k]
        /\ ~result[Len(result)].pagination.hasMore =>
               ResultsOf(result) = [k \in 1..call.total |-> k]

\* ------------------------------------------------------------------------
\* Properties of the audit queries (SpecAuditQuery)
\* ------------------------------------------------------------------------
\* C36: getRecentEntries(n) returns the min(n, stored) entries appended
\* last, in the order they were appended, for every n >= 0; none for n = 0.
C36_RecentEntries ==
    [][result' # result =>
         LET q == result'[1]
             stored == Len(auditEntries)
             m == IF q.count < stored THEN q.count ELSE stored
         IN /\ Len(q.entries) = m
            /\ \A k \in 1..m : q.entries[k] = auditEntries[stored - m + k]]_vars

\* what the code keeps: the contract for every n >= 1
C36_RecentEntriesPositive ==
    [][(result' # result /\ result'[1].count >= 1) =>
         LET q == result'[1]
             stored == Len(auditEntries)
             m == IF q.count < stored THEN q.count ELSE stored
         IN /\ Len(q.entries) = m
            /\ \A k \in 1..m : q.entries[k] = auditEntries[stored - m + k]]_vars

\* ------------------------------------------------------------------------
\* Properties of the source-link requests (SpecLinks)
\* ------------------------------------------------------------------------
\* the requests of caller c for a judgment or for source links that were
\* validated and admitted
JudgmentBudgetUsers(c) ==
    {r \in Reqs : /\ req[r].tool \in {"judgment", "links"}
                  /\ req[r].clientId = c
                  /\ Admitted(req[r])}

\* C37: source-link requests are admitted through the judgment limiter:
\* every admitted judgment or source-link request of a caller is one
\* accepted check of the judgment limiter, so that in any window at most
\* maxRequests of them (together) are admitted; and a step that starts a
\* judgment or source-link request leaves the search and health limiters
\* as they were.
C37_SharedJudgmentBudget ==
    /\ [](\A c \in Clients :
            /\ Len(rlAccepted["judgment"][c])
                  = Cardinality(JudgmentBudgetUsers(c))
            /\ \A t \in 0..MaxTime :
                  CountIn(rlAccepted["judgment"][c], t - WindowMs, t)
                      <= JudgmentMaxRequests)
    /\ [][\A r \in Reqs :
            (Started(r) /\ req'[r].tool \in {"judgment", "links"}) =>
                /\ rlEntries'["search"] = rlEntries["search"]
                /\ rlEntries'["health"] = rlEntries["health"]
                /\ rlAccepted'["search"] = rlAccepted["search"]
                /\ rlAccepted'["health"] = rlAccepted["health"]]_vars

\* a caller whose judgment request was admitted asked for source links in
\* the same window and was turned away, although a search request of the
\* caller would still be admitted
C37_Witness ==
    \E r1 \in Reqs, r2 \in Reqs :
        /\ req[r1].tool = "judgment" /\ Admitted(req[r1])
        /\ req[r2].tool = "links" /\ req[r2].pc = "done"
        /\ ValidateInput(req[r2].input)
        /\ req[r1].clientId = req[r2].clientId
        /\ req[r2].response.code = "RATE_LIMIT_EXCEEDED"
        /\ req[r2].response.retryAfterMs > 0
        /\ Recorded("search", req[r2].clientId) = <<>>

\* ------------------------------------------------------------------------
\* One unit of budget per admitted request (Spec)
\* ------------------------------------------------------------------------
\* the budget left to caller c on limiter l, given the limiter's entries
Remaining(entries, l, c) ==
    GetRemainingRequestsOn(entries[l], RateLimits(l), c, now)
\* the timestamps of caller c on limiter l that count at the current instant
LiveIn(entries, l, c) ==
    FilterWindow(IF c \in DOMAIN entries[l] THEN entries[l][c] ELSE <<>>,
                 now - RateLimits(l).windowMs)

\* C38: the step that starts a request takes exactly one unit of the
\* caller's budget for the operation when the request is valid and admitted
\* (its timestamp is recorded, whatever the request meets afterwards) and
\* none when the request is invalid or rejected; no other budget changes;
\* and no later step of a request (cache answer, provider answer or
\* failure, cache store) gives a unit back or takes another.
C38_OneUnitPerAdmittedRequest ==
    [][/\ \A r \in Reqs :
            Started(r) =>
                LET q == req'[r]
                    l == LimiterOf(q.tool)
                    c == q.clientId
                IN /\ Admitted(q) =>
                       /\ Remaining(rlEntries', l, c) = Remaining(rlEntries, l, c) - 1
                       /\ LiveIn(rlEntries', l, c)
                             = Append(LiveIn(rlEntries, l, c), now)
                   /\ ~Admitted(q) =>
                       /\ Remaining(rlEntries', l, c) = Remaining(rlEntries, l, c)
                       /\ LiveIn(rlEntries', l, c) = LiveIn(rlEntries, l, c)
                   /\ \A l2 \in Limiters, c2 \in Clients :
                          (l2 # l \/ c2 # c) =>
                              LiveIn(rlEntries', l2, c2) = LiveIn(rlEntries, l2, c2)
       /\ (now' = now /\ ~\E r \in Reqs : Started(r)) => rlEntries' = rlEntries
      ]_vars

\* two search requests of one caller were admitted at the same instant: the
\* first failed at the provider, the second names a provider that is not
\* registered; both timestamps are still recorded and the budget is used up
C38_Witness ==
    \E r1 \in Reqs, r2 \in Reqs :
        /\ r1 # r2
        /\ req[r1].pc = "done" /\ req[r2].pc = "done"
        /\ req[r1].tool = "search" /\ req[r2].tool = "search"
        /\ req[r1].clientId = req[r2].clientId
        /\ req[r1].response.code = "PROVIDER_ERROR"
        /\ req[r2].response.code = "PROVIDER_NOT_FOUND"
        /\ Len(LiveIn(rlEntries, "search", req[r1].clientId)) = 2
        /\ Remaining(rlEntries, "search", req[r1].clientId) = 0

\* ------------------------------------------------------------------------
\* The cached flags of a successful response (Spec)
\* ------------------------------------------------------------------------
\* C39: on every successful response the cached flag of the wrapper and
\* the cached flag inside the payload agree, and the payload sent to the
\* MCP client says cached = true exactly when the result came from the
\* cache (the provider was not called for the request).
C39_CachedFlagsAgree ==
    \A r \in Reqs :
        (req[r].pc = "done" /\ req[r].response.success) =>
            /\ req[r].response.data.cached = req[r].response.cached
            /\ FormatToolResponse(req[r].response).text.cached
                  = ~req[r].calledProvider

\* what the code keeps: the wrapper's flag is true exactly when the result
\* came from the cache, and the flags agree on every fresh result
C39_WrapperFlagRight ==
    \A r \in Reqs :
        (req[r].pc = "done" /\ req[r].response.success) =>
            /\ req[r].response.cached = ~req[r].calledProvider
            /\ req[r].calledProvider =>
                   req[r].response.data.cached = req[r].response.cached

\* ------------------------------------------------------------------------
\* Two requests racing for one cache key (SpecRace)
\* ------------------------------------------------------------------------
KeyOfReq(r) == GenerateCacheKey(req[r].tool, req[r].provider, req[r].input)
\* the values the cache holds under a key, in the order of the Map
EntriesFor(c, key) ==
    LET held == SelectSeq(c, LAMBDA e : e.key = BuildKey(key))
    IN [i \in 1..Len(held) |-> held[i].value]
\* request r looked the key up and found nothing
Missed(r) ==
    /\ req[r].pc \in {"awaitProvider", "awaitCacheSet", "done"}
    /\ req[r].calledProvider
    /\ ~req[r].got.found
\* two requests with the same cache key, the second started while the first
\* was suspended, that both missed at lookup
BothMissed(r1, r2) ==
    /\ r1 # r2 /\ Missed(r1) /\ Missed(r2)
    /\ KeyOfReq(r1) = KeyOfReq(r2)
    /\ r1 \notin req[r2].after /\ r2 \notin req[r1].after
\* the step in which request r stores its result
Stores(r) == req[r].pc = "awaitProvider" /\ req'[r].pc = "awaitCacheSet"

\* C40: of two concurrent requests with the same cache key that both missed
\* at lookup, each calls the provider and answers, when its call succeeds,
\* with its own result and cached = false, never with the result of the
\* other; each store leaves exactly one entry under the key, the result of
\* the request that stored, and nothing but a store changes it (an
\* eviction may remove it), so that after both have finished the cache
\* holds one entry, the result stored last.
C40_RacingRequests ==
    /\ [](\A r1 \in Reqs, r2 \in Reqs :
            BothMissed(r1, r2) =>
                /\ (req[r1].pc = "done" /\ req[r1].response.success) =>
                       /\ ~req[r1].response.cached
                       /\ req[r1].response.data = OwnOutput(r1)
                       /\ req[r1].response.data # OwnOutput(r2)
                /\ ( /\ req[r1].pc = "done" /\ req[r1].response.success
                     /\ req[r2].pc = "done" /\ req[r2].response.success ) =>
                       /\ Len(EntriesFor(cache, KeyOfReq(r1))) = 1
                       /\ EntriesFor(cache, KeyOfReq(r1))[1]
                              \in {OwnOutput(r1), OwnOutput(r2)})
    /\ [][\A r \in Reqs :
            /\ Stores(r) => EntriesFor(cache', KeyOfReq(r)) = <<OwnOutput(r)>>
            /\ (req[r].pc # "idle" /\ ~\E x \in Reqs :
                                         Stores(x) /\ KeyOfReq(x) = KeyOfReq(r)) =>
                   EntriesFor(cache', KeyOfReq(r))
                       \in {EntriesFor(cache, KeyOfReq(r)), <<>>}
         ]_vars

\* both requests missed and finished with their own results, and the cache
\* holds the result of the request that was started first: it stored last
C40_Witness ==
    /\ BothMissed(1, 2)
    /\ req[1].pc = "done" /\ req[1].response.success
    /\ req[2].pc = "done" /\ req[2].response.success
    /\ req[1].response.data.answer = 1
    /\ req[2].response.data.answer = 2
    /\ EntriesFor(cache, KeyOfReq(1)) = <<OwnOutput(1)>>

====
